---------------------------- MODULE Spec2Model ----------------------------
(***************************************************************************)
(* A model of the spacecam renderer: the ray-geometry intersection         *)
(* library, the per-ray RayContext, the shading functions and the frame    *)
(* orchestrator (package render), with the vector and colour primitives    *)
(* they rest on.                                                           *)
(*                                                                         *)
(* float64 is modelled as a finite-precision number: a reduced fraction    *)
(* n/d, or one of the three IEEE specials +Inf, -Inf and NaN.  A result    *)
(* whose reduced form is short (d <= MaxDen and |n| < MaxNum, or the       *)
(* reciprocal of such a fraction) or integral is kept exactly; any other   *)
(* result is rounded down to a decimal grid                                *)
(* chosen by its magnitude, as a float64 result is rounded to its 53-bit   *)
(* mantissa.  Zero is unsigned.                                            *)
(***************************************************************************)
EXTENDS Integers, Sequences, FiniteSets, TLC

VARIABLES
    ctx,        \* the RayContext of the sequential renderer
    trace,      \* the ray directions set on ctx so far, oldest first
    probe,      \* the last call of a pure function: [op, args, ret]
    scene,      \* the arguments of the RenderScene call being run
    seq,        \* RenderScene's pixel loop: its position, context and image
    contexts,   \* the RayContext instances of the workers and who used each
    workers,    \* each worker's pixel loop and the context it uses
    img,        \* the image the workers write: per pixel, the bytes and the writers
    tiff        \* a tiled TIFF texture: its header, its file and its tile cache

vars == <<ctx, trace, probe, scene, seq, contexts, workers, img, tiff>>

-----------------------------------------------------------------------------
(* float64 *)

\* A block of statements with local variables: [v \in {e} |-> body] is the
\* body run after the assignment v := e, and Do gives its value.  As in Go,
\* the assigned value is computed once, before the statements that follow it.
Do(f) == f[CHOOSE v \in DOMAIN f : TRUE]

\* Precision of the float64 model: results whose reduced fraction is longer
\* than this are rounded.
MaxDen == 100
MaxNum == 40000

NaN == [n |-> 0, d |-> 0]
PInf == [n |-> 1, d |-> 0]
NInf == [n |-> -1, d |-> 0]

Abs(i) == IF i < 0 THEN -i ELSE i
Sign(i) == IF i < 0 THEN -1 ELSE IF i > 0 THEN 1 ELSE 0

RECURSIVE GCD(_, _)
GCD(a, b) == IF b = 0 THEN a ELSE GCD(b, a % b)

\* The reduced fraction n/d, d > 0.
Frac(n, d) == Do([g \in {GCD(Abs(n), d)} |-> [n |-> n \div g, d |-> d \div g]])

\* The float64 constant i (an integer literal) and p/q (a decimal literal).
F(i) == [n |-> i, d |-> 1]
Q(p, q) == Frac(p, q)

IsNaN(x) == x.d = 0 /\ x.n = 0
IsInf(x) == x.d = 0 /\ x.n # 0
IsFin(x) == x.d > 0

\* The decimal grid of a value whose floor is w.
Grid(w) ==
    IF Abs(w) < 40 THEN 1000 ELSE IF Abs(w) < 400 THEN 100
    ELSE IF Abs(w) < 4000 THEN 10 ELSE 1

\* a * b as a quotient and a remainder by c (a, b >= 0, 0 < c < 2^30), digit
\* by digit of b in the largest radix R that keeps every intermediate below
\* 2^31 (by doubling for the largest c).
RECURSIVE MulDivMod(_, _, _)
MulDivMod(a, b, c) ==
    IF b = 0 THEN [q |-> 0, r |-> 0]
    ELSE IF a >= c
         THEN Do([h \in {MulDivMod(a % c, b, c)} |->
                  [q |-> (a \div c) * b + h.q, r |-> h.r]])
    ELSE IF c <= 536870911
         THEN Do([R \in {2147483647 \div (2 * c)} |->
              Do([h \in {MulDivMod(a, b \div R, c)} |->
              Do([s \in {R * h.r + a * (b % R)} |->
                  [q |-> R * h.q + s \div c, r |-> s % c]])])])
    ELSE Do([h \in {MulDivMod(a, b \div 2, c)} |->
         Do([q2 \in {2 * h.q + (2 * h.r) \div c}, r2 \in {(2 * h.r) % c} |->
             IF b % 2 = 0 THEN [q |-> q2, r |-> r2]
             ELSE [q |-> q2 + (r2 + a) \div c, r |-> (r2 + a) % c]])])

\* a * m as a floored quotient and a remainder by l, for m >= 0 and any a.
MulFloor(a, m, l) ==
    IF Abs(a) < 46341 /\ m < 46341 THEN [q |-> (a * m) \div l, r |-> (a * m) % l]
    ELSE Do([h \in {MulDivMod(Abs(a), m, l)} |->
             IF a >= 0 THEN h
             ELSE IF h.r = 0 THEN [q |-> -h.q, r |-> 0]
             ELSE [q |-> -h.q - 1, r |-> l - h.r]])

\* floor(x * q) for a finite x and a grid q >= 1.
FloorTimes(x, q) == (x.n \div x.d) * q + MulFloor(x.n % x.d, q, x.d).q

\* Rounding of the exact result w + r/l (0 <= r < l) to a representable number.
Rnd(w, r, l) ==
    Do([g \in {GCD(r, l)} |->
    Do([rr \in {r \div g}, ll \in {l \div g} |->
        IF rr = 0 THEN [n |-> w, d |-> 1]
        ELSE IF ll <= MaxDen /\ Abs(w) < MaxNum \div ll THEN [n |-> w * ll + rr, d |-> ll]
        ELSE IF ll < MaxNum \div 2 /\ Abs(w) <= 1 /\ Abs(w * ll + rr) <= MaxDen
             THEN [n |-> w * ll + rr, d |-> ll]
        ELSE Do([q \in {Grid(w)} |->
             Do([m \in {MulFloor(rr, q, ll)} |-> Frac(w * q + m.q, q)])])])])

Neg(x) == [n |-> -x.n, d |-> x.d]

\* x + y
FAdd(x, y) ==
    IF IsNaN(x) \/ IsNaN(y) THEN NaN
    ELSE IF IsInf(x) THEN (IF IsInf(y) /\ y.n # x.n THEN NaN ELSE x)
    ELSE IF IsInf(y) THEN y
    ELSE Do([g \in {GCD(x.d, y.d)} |->
         Do([l \in {(x.d \div g) * y.d} |->
         Do([rs \in {(x.n % x.d) * (l \div x.d) + (y.n % y.d) * (l \div y.d)} |->
             Rnd((x.n \div x.d) + (y.n \div y.d) + rs \div l, rs % l, l)])])])

\* x - y
FSub(x, y) == FAdd(x, Neg(y))

\* x * y
FMul(x, y) ==
    IF IsNaN(x) \/ IsNaN(y) THEN NaN
    ELSE IF IsInf(x) \/ IsInf(y)
         THEN (IF x.n = 0 \/ y.n = 0 THEN NaN
               ELSE [n |-> Sign(x.n) * Sign(y.n), d |-> 0])
    ELSE Do([g1 \in {GCD(Abs(x.n), y.d)}, g2 \in {GCD(Abs(y.n), x.d)} |->
         Do([p \in {x.n \div g1}, q \in {y.n \div g2},
             l \in {(x.d \div g2) * (y.d \div g1)} |->
         Do([a \in {IF Abs(p) <= Abs(q) THEN p ELSE q},
             b \in {IF Abs(p) <= Abs(q) THEN q ELSE p} |->
         Do([lo \in {MulFloor(a, b % l, l)} |->
             Rnd(a * (b \div l) + lo.q, lo.r, l)])])])])

\* x / y
FDiv(x, y) ==
    IF IsNaN(x) \/ IsNaN(y) THEN NaN
    ELSE IF IsInf(x) THEN (IF IsInf(y) THEN NaN
                           ELSE [n |-> x.n * (IF y.n < 0 THEN -1 ELSE 1), d |-> 0])
    ELSE IF IsInf(y) THEN F(0)
    ELSE IF y.n = 0 THEN (IF x.n = 0 THEN NaN ELSE [n |-> Sign(x.n), d |-> 0])
    ELSE FMul(x, [n |-> Sign(y.n) * y.d, d |-> Abs(y.n)])

\* x < y, x == y, x <= y, x > y, x >= y: every comparison with NaN is false.
FLt(x, y) ==
    IF IsNaN(x) \/ IsNaN(y) THEN FALSE
    ELSE IF IsInf(x) THEN x.n < 0 /\ y # x
    ELSE IF IsInf(y) THEN y.n > 0
    ELSE IF x.n \div x.d # y.n \div y.d THEN x.n \div x.d < y.n \div y.d
    ELSE (x.n % x.d) * y.d < (y.n % y.d) * x.d
FEq(x, y) == ~IsNaN(x) /\ ~IsNaN(y) /\ x = y
FLe(x, y) == FLt(x, y) \/ FEq(x, y)
FGt(x, y) == FLt(y, x)
FGe(x, y) == FLe(y, x)

\* The largest s with s * s <= m, by Newton's iteration from an x with
\* x * x > m.
RECURSIVE ISqrtIn(_, _)
ISqrtIn(m, x) ==
    Do([y \in {(x + m \div x) \div 2} |-> IF y >= x THEN x ELSE ISqrtIn(m, y)])
ISqrt(m) ==
    IF m = 0 THEN 0
    ELSE ISqrtIn(m, IF m < 16 THEN 4 ELSE IF m < 256 THEN 16
                    ELSE IF m < 4096 THEN 64 ELSE IF m < 65536 THEN 256
                    ELSE IF m < 1048576 THEN 1024 ELSE IF m < 16777216 THEN 4096
                    ELSE IF m < 268435456 THEN 16384 ELSE 46341)

\* The grid of the square root of a value of this magnitude.
SqrtGrid(m) ==
    IF m < 2000 THEN 1000 ELSE IF m < 200000 THEN 100
    ELSE IF m < 20000000 THEN 10 ELSE 1

\* math.Sqrt: exact on the square of a fraction, rounded down otherwise.
Sqrt(x) ==
    IF IsNaN(x) THEN NaN
    ELSE IF IsInf(x) THEN (IF x.n > 0 THEN PInf ELSE NaN)
    ELSE IF x.n < 0 THEN NaN
    ELSE Do([sn \in {ISqrt(x.n)}, sd \in {ISqrt(x.d)} |->
             IF sn * sn = x.n /\ sd * sd = x.d THEN [n |-> sn, d |-> sd]
             ELSE Do([q \in {SqrtGrid(x.n \div x.d)} |->
                      Frac(ISqrt(FloorTimes(x, q * q)), q)])])

\* math.Max and math.Min
MathMax(x, y) ==
    IF IsNaN(x) \/ IsNaN(y) THEN NaN ELSE IF FLt(x, y) THEN y ELSE x
MathMin(x, y) ==
    IF IsNaN(x) \/ IsNaN(y) THEN NaN ELSE IF FLt(y, x) THEN y ELSE x

\* x^k by repeated squaring: sq is x^(2^i), k the binary digits of the
\* exponent from digit i on, acc the product of the squares selected so far
\* (<<>> while there is none).
RECURSIVE PowBits(_, _, _)
PowBits(sq, k, acc) ==
    Do([p \in {IF k % 2 = 0 THEN acc
               ELSE IF acc = <<>> THEN <<sq>> ELSE <<FMul(acc[1], sq)>>} |->
        IF k \div 2 = 0 THEN p[1]
        ELSE Do([s2 \in {FMul(sq, sq)} |-> PowBits(s2, k \div 2, p)])])

\* math.Pow(x, k) for the whole exponents k >= 1 the renderer uses.
Pow(x, k) == PowBits(x, k, <<>>)

\* math.Exp, approximated by (1 + x/16)^16 where that is positive and finite
\* in the model's range.
Exp(x) ==
    IF IsNaN(x) THEN NaN
    ELSE IF IsInf(x) THEN (IF x.n > 0 THEN PInf ELSE F(0))
    ELSE IF FLe(x, F(-16)) THEN F(0)
    ELSE IF FGe(x, F(16)) THEN PInf
    ELSE Pow(FAdd(F(1), FMul(x, Q(1, 16))), 16)

\* The whole k with 2^k <= m < 2^(k+1), for a whole m >= 1.
RECURSIVE ILog2(_)
ILog2(m) ==
    IF m >= 65536 THEN 16 + ILog2(m \div 65536)
    ELSE IF m >= 256 THEN 8 + ILog2(m \div 256)
    ELSE IF m >= 16 THEN 4 + ILog2(m \div 16)
    ELSE IF m >= 4 THEN 2 + ILog2(m \div 4)
    ELSE IF m >= 2 THEN 1 ELSE 0

\* The whole k with 2^k <= x < 2^(k+1), for a finite x >= 1.
Log2Floor(x) == ILog2(x.n \div x.d)
Pow2(k) == 2 ^ k

\* ln 2
Ln2 == Q(693, 1000)

\* math.Log, approximated by ln 2 times the piecewise-linear log2 that is exact
\* at the powers of two.
Log(x) ==
    IF IsNaN(x) THEN NaN
    ELSE IF IsInf(x) THEN (IF x.n > 0 THEN PInf ELSE NaN)
    ELSE IF x.n < 0 THEN NaN
    ELSE IF x.n = 0 THEN NInf
    ELSE IF FGe(x, F(1))
         THEN Do([k \in {Log2Floor(x)} |->
                  FMul(FAdd(F(k - 1), FMul(x, Q(1, Pow2(k)))), Ln2)])
         ELSE Do([k \in {Log2Floor(FDiv(F(1), x))} |->
              Do([m \in {FMul(x, F(Pow2(k)))} |->
                  FMul(IF FEq(m, F(1)) THEN F(-k)
                       ELSE FAdd(F(-k - 2), FMul(m, F(2))), Ln2)])])

\* math.Pi, and the multiples of it the code uses
Pi == Q(3927, 1250)
HalfPi == FMul(Pi, Q(1, 2))
QuarterPi == FMul(Pi, Q(1, 4))

\* math.Abs
FAbs(x) == IF x.n < 0 THEN Neg(x) ELSE x

\* The conversion of a finite float64 to an integer: truncation toward zero.
Trunc(x) == IF x.n >= 0 THEN x.n \div x.d ELSE -((-x.n) \div x.d)

\* math.Mod(x, y): the remainder of x / y with the sign of x.
Mod(x, y) ==
    IF IsNaN(x) \/ IsNaN(y) \/ IsInf(x) THEN NaN
    ELSE IF IsInf(y) THEN x
    ELSE IF y.n = 0 THEN NaN
    ELSE FSub(x, FMul(y, F(Trunc(FDiv(x, y)))))

\* math.Acos, approximated on [0, 1] by sqrt(1 - x) times a cubic (Abramowitz
\* and Stegun 4.4.45) and mirrored for negative x.
AcosUnit(x) ==
    Do([root \in {Sqrt(FSub(F(1), x))},
        c2 \in {FAdd(Q(743, 10000), FMul(x, Q(-187, 10000)))} |->
    Do([c1 \in {FAdd(Q(-2121, 10000), FMul(x, c2))} |->
    Do([c0 \in {FAdd(HalfPi, FMul(x, c1))} |-> FMul(root, c0)])])])
Acos(x) ==
    IF IsNaN(x) \/ FGt(x, F(1)) \/ FLt(x, F(-1)) THEN NaN
    ELSE Do([a \in {AcosUnit(FAbs(x))} |-> IF FGe(x, F(0)) THEN a ELSE FSub(Pi, a)])

\* math.Asin
Asin(x) == FSub(HalfPi, Acos(x))

\* The arctangent of z in [0, 1], approximated by z * (pi/4 + 0.273 * (1 - z)).
AtanUnit(z) == FMul(z, FAdd(QuarterPi, FMul(Q(273, 1000), FSub(F(1), z))))
AtanPos(z) ==
    IF IsInf(z) THEN HalfPi
    ELSE Do([a \in {AtanUnit(IF FLe(z, F(1)) THEN z ELSE FDiv(F(1), z))} |->
             IF FLe(z, F(1)) THEN a ELSE FSub(HalfPi, a)])

\* math.Atan2(y, x)
Atan2(y, x) ==
    IF IsNaN(x) \/ IsNaN(y) THEN NaN
    ELSE IF y.n = 0 THEN (IF x.n >= 0 THEN F(0) ELSE Pi)
    ELSE IF x.n = 0 THEN (IF y.n > 0 THEN HalfPi ELSE Neg(HalfPi))
    ELSE Do([a \in {IF IsInf(x) /\ IsInf(y) THEN QuarterPi
                    ELSE AtanPos(FAbs(FDiv(y, x)))} |->
         Do([q \in {IF x.n > 0 THEN a ELSE FSub(Pi, a)} |->
             IF y.n > 0 THEN q ELSE Neg(q)])])

\* math.Floor of a finite x, as an integer.
Floor(x) == IF x.n >= 0 THEN x.n \div x.d ELSE -((x.d - 1 - x.n) \div x.d)

\* math.Sin and math.Cos: the argument is reduced by whole quarter turns to a
\* remainder in [-Pi/4, Pi/4], which feeds the polynomial of its quadrant.
QuarterTurns(x) == Floor(FAdd(FDiv(x, HalfPi), Q(1, 2)))
SinPoly(r) ==
    Do([r2 \in {FMul(r, r)} |->
        FMul(r, FAdd(F(1), FMul(r2, FAdd(Q(-1, 6), FMul(r2, Q(1, 120))))))])
CosPoly(r) ==
    Do([r2 \in {FMul(r, r)} |->
        FAdd(F(1), FMul(r2, FAdd(Q(-1, 2), FMul(r2, Q(1, 24)))))])
SinShifted(x, shift) ==
    IF ~IsFin(x) THEN NaN
    ELSE Do([k \in {QuarterTurns(x)} |->
         Do([r \in {FSub(x, FMul(F(k), HalfPi))}, q \in {(k + shift) % 4} |->
             IF q = 0 THEN SinPoly(r) ELSE IF q = 1 THEN CosPoly(r)
             ELSE IF q = 2 THEN Neg(SinPoly(r)) ELSE Neg(CosPoly(r))])])
Sin(x) == SinShifted(x, 0)
Cos(x) == SinShifted(x, 1)

\* math.Tan
Tan(x) == FDiv(Sin(x), Cos(x))


-----------------------------------------------------------------------------
(* package vectors *)

Vec(x, y, z) == [X |-> x, Y |-> y, Z |-> z]

\* vectors.Zero
Zero == Vec(F(0), F(0), F(0))

\* Vec3.Add, Vec3.Sub, Vec3.Scale
VAdd(v, o) == Vec(FAdd(v.X, o.X), FAdd(v.Y, o.Y), FAdd(v.Z, o.Z))
VSub(v, o) == Vec(FSub(v.X, o.X), FSub(v.Y, o.Y), FSub(v.Z, o.Z))
Scale(v, s) == Vec(FMul(v.X, s), FMul(v.Y, s), FMul(v.Z, s))

\* Vec3.Dot
Dot(v, o) == FAdd(FAdd(FMul(v.X, o.X), FMul(v.Y, o.Y)), FMul(v.Z, o.Z))

\* Vec3.Norm
Norm(v) == Sqrt(Dot(v, v))

\* Vec3.Normalize: the zero vector for a zero-length input.
Normalize(v) ==
    Do([n \in {Norm(v)} |->
        IF FEq(n, F(0)) THEN Zero
        ELSE Do([inv \in {FDiv(F(1), n)} |->
                 Vec(FMul(v.X, inv), FMul(v.Y, inv), FMul(v.Z, inv))])])

\* Vec3.Cross
Cross(v, o) ==
    Vec(FSub(FMul(v.Y, o.Z), FMul(v.Z, o.Y)),
        FSub(FMul(v.Z, o.X), FMul(v.X, o.Z)),
        FSub(FMul(v.X, o.Y), FMul(v.Y, o.X)))

-----------------------------------------------------------------------------
(* package earth *)

Radius == 6371
RadiusWithAtmosphere == 6471

-----------------------------------------------------------------------------
(* The intersection library *)

Miss == [hit |-> FALSE, t0 |-> F(0), t1 |-> F(0)]

\* intersectSphereForward(origin, dir, radius) -> (hit, t0, t1)
\* intersectSphereForward without its test for a sphere wholly behind the origin.
intersectSphereBehindToo(origin, dir, radius) ==
    Do([a \in {Dot(dir, dir)},
        b \in {FMul(F(2), Dot(origin, dir))},
        c \in {FSub(Dot(origin, origin), FMul(radius, radius))} |->
    Do([discriminant \in {FSub(FMul(b, b), FMul(FMul(F(4), a), c))} |->
        IF FLt(discriminant, F(0)) THEN Miss
        ELSE Do([sqrtD \in {Sqrt(discriminant)} |->
             Do([t0 \in {FDiv(FSub(Neg(b), sqrtD), FMul(F(2), a))},
                 t1 \in {FDiv(FAdd(Neg(b), sqrtD), FMul(F(2), a))} |->
                 [hit |-> TRUE, t0 |-> IF FLt(t0, F(0)) THEN F(0) ELSE t0,
                  t1 |-> t1]])])])])

intersectSphereForward(origin, dir, radius) ==
    Do([a \in {Dot(dir, dir)},
        b \in {FMul(F(2), Dot(origin, dir))},
        c \in {FSub(Dot(origin, origin), FMul(radius, radius))} |->
    Do([discriminant \in {FSub(FMul(b, b), FMul(FMul(F(4), a), c))} |->
        IF FLt(discriminant, F(0)) THEN Miss
        ELSE Do([sqrtD \in {Sqrt(discriminant)} |->
             Do([t0 \in {FDiv(FSub(Neg(b), sqrtD), FMul(F(2), a))},
                 t1 \in {FDiv(FAdd(Neg(b), sqrtD), FMul(F(2), a))} |->
                 IF FLt(t1, F(0)) THEN Miss
                 ELSE [hit |-> TRUE, t0 |-> IF FLt(t0, F(0)) THEN F(0) ELSE t0,
                       t1 |-> t1]])])])])

\* intersectHalfCylinderForward(origin, dir, axisDir, radius) -> (hit, t0, t1)
intersectHalfCylinderForward(origin, dir, axisDir, radius) ==
    Do([dPerp \in {VSub(dir, Scale(axisDir, Dot(dir, axisDir)))},
        coPerp \in {VSub(origin, Scale(axisDir, Dot(origin, axisDir)))} |->
    Do([a \in {Dot(dPerp, dPerp)},
        b \in {FMul(F(2), Dot(dPerp, coPerp))},
        c \in {FSub(Dot(coPerp, coPerp), FMul(radius, radius))} |->
    Do([discriminant \in {FSub(FMul(b, b), FMul(FMul(F(4), a), c))} |->
        IF FLt(discriminant, F(0)) \/ FEq(a, F(0)) THEN Miss
        ELSE Do([sqrtD \in {Sqrt(discriminant)} |->
             Do([t0 \in {FDiv(FSub(Neg(b), sqrtD), FMul(F(2), a))},
                 t1 \in {FDiv(FAdd(Neg(b), sqrtD), FMul(F(2), a))} |->
                 IF FLt(t1, F(0)) THEN Miss
                 ELSE Do([M1 \in {VAdd(origin, Scale(dir, t0))} |->
                          IF FLt(Dot(M1, axisDir), F(0)) THEN Miss
                          ELSE [hit |-> TRUE, t0 |-> MathMax(F(0), t0),
                                t1 |-> t1]])])])])])])

-----------------------------------------------------------------------------
(* package colors *)

Color(r, g, b, a) == [R |-> r, G |-> g, B |-> b, A |-> a]

\* colors.Black
Black == Color(F(0), F(0), F(0), F(1))

\* Color4.Add, Color4.Mul, Color4.Scale, Color4.Mix
CAdd(c, o) == Color(FAdd(c.R, o.R), FAdd(c.G, o.G), FAdd(c.B, o.B), FAdd(c.A, o.A))
CMul(c, o) == Color(FMul(c.R, o.R), FMul(c.G, o.G), FMul(c.B, o.B), FMul(c.A, o.A))
CScale(c, s) == Color(FMul(c.R, s), FMul(c.G, s), FMul(c.B, s), FMul(c.A, s))
Mix(c, o, t) ==
    Do([u \in {FSub(F(1), t)} |->
        Color(FAdd(FMul(c.R, u), FMul(o.R, t)), FAdd(FMul(c.G, u), FMul(o.G, t)),
              FAdd(FMul(c.B, u), FMul(o.B, t)), FAdd(FMul(c.A, u), FMul(o.A, t)))])

\* BoostSaturation(factor)
BoostSaturation(c, factor) ==
    Do([avg \in {FDiv(FAdd(FAdd(c.R, c.G), c.B), F(3))} |->
        Color(FAdd(avg, FMul(FSub(c.R, avg), factor)),
              FAdd(avg, FMul(FSub(c.G, avg), factor)),
              FAdd(avg, FMul(FSub(c.B, avg), factor)), c.A)])

\* CompositeOverBlack()
CompositeOverBlack(c) == Color(FMul(c.R, c.A), FMul(c.G, c.A), FMul(c.B, c.A), F(1))

\* clamp01(x)
clamp01(x) == IF FLt(x, F(0)) THEN F(0) ELSE IF FGt(x, F(1)) THEN F(1) ELSE x

\* The conversion uint8(y) of a NaN: the language leaves it to the
\* implementation; a build fixes one value.
Uint8OfNaN == CHOOSE b \in 0..255 : TRUE

\* to8bit rounding to the nearest integer.
to8bitRounded(x) ==
    Do([y0 \in {FMul(F(255), clamp01(x))} |->
    Do([y1 \in {IF FLt(y0, F(0)) THEN F(0) ELSE y0} |->
    Do([y \in {IF FGt(y1, F(255)) THEN F(255) ELSE y1} |->
        IF IsNaN(y) THEN Uint8OfNaN ELSE Trunc(FAdd(y, Q(1, 2)))])])])

\* to8bit(x)
to8bit(x) ==
    Do([y0 \in {FMul(F(255), clamp01(x))} |->
    Do([y1 \in {IF FLt(y0, F(0)) THEN F(0) ELSE y0} |->
    Do([y \in {IF FGt(y1, F(255)) THEN F(255) ELSE y1} |->
        IF IsNaN(y) THEN Uint8OfNaN ELSE Trunc(y)])])])

\* ToNRGBA()
ToNRGBA(c) == <<to8bit(c.R), to8bit(c.G), to8bit(c.B), to8bit(c.A)>>


-----------------------------------------------------------------------------
(* RayContext *)

\* The theme of package render: DayRim, NightRim, OuterRim, Warm.
DefaultTheme ==
    [DayRim   |-> Color(Q(1, 4), Q(3, 5), F(1), F(1)),
     NightRim |-> Color(Q(1, 20), Q(7, 100), Q(1, 5), Q(1, 2)),
     OuterRim |-> Color(Q(3, 5), Q(9, 10), Q(6, 5), F(1)),
     Warm     |-> Color(Q(51, 50), F(1), Q(49, 50), F(1)),
     Day |-> "day", Night |-> "night", Clouds |-> "clouds"]

\* NewRayContext: the scene-fixed fields set, every other field Go's zero value.
NewRayContext(origin, sunDir, theme, texDay, texNight, texClouds) ==
    [Origin |-> origin, SunDir |-> sunDir, GlobalSunFraction |-> F(0),
     RayDir |-> Zero, TEarth |-> F(0), SurfaceNormal |-> Zero, HitPoint |-> Zero,
     HitEarth |-> FALSE, ViewDotNormal |-> F(0),
     theme |-> theme, TexDay |-> texDay, TexNight |-> texNight, TexClouds |-> texClouds,
     HitsAtmosphere |-> FALSE, AtmosphereEntryT |-> F(0), AtmosphereExitT |-> F(0),
     HitsEarthShadow |-> FALSE, EarthShadowEntryT |-> F(0), EarthShadowExitT |-> F(0)]

\* SetRayDirection without its no-hit branch: on a miss the hit point, the
\* normal and the view cosine keep the values of the previous ray.
SetRayDirectionStale(c, rayDirection) ==
    Do([earthHit \in {intersectSphereForward(c.Origin, rayDirection, F(Radius))},
        atmo \in {intersectSphereForward(c.Origin, rayDirection, F(RadiusWithAtmosphere))},
        shadow \in {intersectHalfCylinderForward(c.Origin, rayDirection,
                                                 Scale(c.SunDir, F(-1)), F(Radius))} |->
    Do([hitPoint \in {VAdd(c.Origin, Scale(rayDirection, earthHit.t0))} |->
    Do([normal \in {Normalize(hitPoint)} |->
        [c EXCEPT
          !.RayDir = rayDirection,
          !.HitEarth = earthHit.hit,
          !.TEarth = earthHit.t0,
          !.HitPoint = IF earthHit.hit THEN hitPoint ELSE @,
          !.SurfaceNormal = IF earthHit.hit THEN normal ELSE @,
          !.ViewDotNormal = IF earthHit.hit THEN Neg(Dot(normal, rayDirection)) ELSE @,
          !.HitsAtmosphere = atmo.hit,
          !.AtmosphereEntryT = IF atmo.hit /\ earthHit.hit
                               THEN MathMin(atmo.t0, earthHit.t0) ELSE atmo.t0,
          !.AtmosphereExitT = IF atmo.hit /\ earthHit.hit
                              THEN MathMin(atmo.t1, earthHit.t0) ELSE atmo.t1,
          !.HitsEarthShadow = shadow.hit,
          !.EarthShadowEntryT = IF shadow.hit /\ earthHit.hit
                                THEN MathMin(shadow.t0, earthHit.t0) ELSE shadow.t0,
          !.EarthShadowExitT = IF shadow.hit /\ earthHit.hit
                               THEN MathMin(shadow.t1, earthHit.t0) ELSE shadow.t1]])])])

\* SetRayDirection starting from a context made anew, its sun fraction zero.
SetRayDirectionAnew(c, rayDirection) ==
    Do([earthHit \in {intersectSphereForward(c.Origin, rayDirection, F(Radius))},
        atmo \in {intersectSphereForward(c.Origin, rayDirection, F(RadiusWithAtmosphere))},
        shadow \in {intersectHalfCylinderForward(c.Origin, rayDirection,
                                                 Scale(c.SunDir, F(-1)), F(Radius))} |->
    Do([hitPoint \in {VAdd(c.Origin, Scale(rayDirection, earthHit.t0))} |->
    Do([normal \in {Normalize(hitPoint)} |->
        [NewRayContext(c.Origin, c.SunDir, c.theme, c.TexDay, c.TexNight, c.TexClouds)
         EXCEPT
          !.RayDir = rayDirection,
          !.HitEarth = earthHit.hit,
          !.TEarth = earthHit.t0,
          !.HitPoint = IF earthHit.hit THEN hitPoint ELSE Zero,
          !.SurfaceNormal = IF earthHit.hit THEN normal ELSE Zero,
          !.ViewDotNormal = IF earthHit.hit THEN Neg(Dot(normal, rayDirection)) ELSE F(0),
          !.HitsAtmosphere = atmo.hit,
          !.AtmosphereEntryT = IF atmo.hit /\ earthHit.hit
                               THEN MathMin(atmo.t0, earthHit.t0) ELSE atmo.t0,
          !.AtmosphereExitT = IF atmo.hit /\ earthHit.hit
                              THEN MathMin(atmo.t1, earthHit.t0) ELSE atmo.t1,
          !.HitsEarthShadow = shadow.hit,
          !.EarthShadowEntryT = IF shadow.hit /\ earthHit.hit
                                THEN MathMin(shadow.t0, earthHit.t0) ELSE shadow.t0,
          !.EarthShadowExitT = IF shadow.hit /\ earthHit.hit
                               THEN MathMin(shadow.t1, earthHit.t0) ELSE shadow.t1]])])])

\* The context c after c.SetRayDirection(rayDirection).
SetRayDirection(c, rayDirection) ==
    Do([earthHit \in {intersectSphereForward(c.Origin, rayDirection, F(Radius))},
        atmo \in {intersectSphereForward(c.Origin, rayDirection, F(RadiusWithAtmosphere))},
        shadow \in {intersectHalfCylinderForward(c.Origin, rayDirection,
                                                 Scale(c.SunDir, F(-1)), F(Radius))} |->
    Do([hitPoint \in {VAdd(c.Origin, Scale(rayDirection, earthHit.t0))} |->
    Do([normal \in {Normalize(hitPoint)} |->
        [c EXCEPT
          !.RayDir = rayDirection,
          !.HitEarth = earthHit.hit,
          !.TEarth = earthHit.t0,
          !.HitPoint = IF earthHit.hit THEN hitPoint ELSE Zero,
          !.SurfaceNormal = IF earthHit.hit THEN normal ELSE Zero,
          !.ViewDotNormal = IF earthHit.hit THEN Neg(Dot(normal, rayDirection)) ELSE F(0),
          !.HitsAtmosphere = atmo.hit,
          !.AtmosphereEntryT = IF atmo.hit /\ earthHit.hit
                               THEN MathMin(atmo.t0, earthHit.t0) ELSE atmo.t0,
          !.AtmosphereExitT = IF atmo.hit /\ earthHit.hit
                              THEN MathMin(atmo.t1, earthHit.t0) ELSE atmo.t1,
          !.HitsEarthShadow = shadow.hit,
          !.EarthShadowEntryT = IF shadow.hit /\ earthHit.hit
                                THEN MathMin(shadow.t0, earthHit.t0) ELSE shadow.t0,
          !.EarthShadowExitT = IF shadow.hit /\ earthHit.hit
                               THEN MathMin(shadow.t1, earthHit.t0) ELSE shadow.t1]])])])

\* The per-ray fields of a context.
PerRay(c) ==
    <<c.RayDir, c.HitEarth, c.TEarth, c.HitPoint, c.SurfaceNormal, c.ViewDotNormal,
      c.HitsAtmosphere, c.AtmosphereEntryT, c.AtmosphereExitT,
      c.HitsEarthShadow, c.EarthShadowEntryT, c.EarthShadowExitT>>

-----------------------------------------------------------------------------
(* The shading functions *)

\* t * t * (3 - 2 * t)
Hermite(t) == FMul(FMul(t, t), FSub(F(3), FMul(F(2), t)))

\* Smoothstep without the clamp of t to [0, 1].
SmoothstepUnclamped(edge0, edge1, x) ==
    IF FEq(edge0, edge1) THEN (IF FLt(x, edge0) THEN F(0) ELSE F(1))
    ELSE Do([t \in {FDiv(FSub(x, edge0), FSub(edge1, edge0))} |-> Hermite(t)])

\* Clip(x, min, max)
Clip(x, min, max) == IF FLt(x, min) THEN min ELSE IF FGt(x, max) THEN max ELSE x

\* Smoothstep(edge0, edge1, x)
Smoothstep(edge0, edge1, x) ==
    IF FEq(edge0, edge1) THEN (IF FLt(x, edge0) THEN F(0) ELSE F(1))
    ELSE Do([t \in {FDiv(FSub(x, edge0), FSub(edge1, edge0))} |->
         Do([tc \in {IF FLt(t, F(0)) THEN F(0) ELSE IF FGt(t, F(1)) THEN F(1) ELSE t} |->
             Hermite(tc)])])

\* Lerp(a, b, t)
Lerp(a, b, t) == FAdd(a, FMul(FSub(b, a), t))

\* One channel of BlendNightDay.
BlendChannel(day, night, light) ==
    Sqrt(FAdd(FMul(FMul(FSub(F(1), light), night), night), FMul(FMul(light, day), day)))

\* BlendNightDay with the weights of day and night exchanged.
BlendNightDaySwapped(c, CDay, CNight, light) ==
    Color(BlendChannel(CNight.R, CDay.R, light), BlendChannel(CNight.G, CDay.G, light),
          BlendChannel(CNight.B, CDay.B, light), F(1))

\* BlendNightDay(ctx, CDay, CNight, light)
BlendNightDay(c, CDay, CNight, light) ==
    Color(BlendChannel(CDay.R, CNight.R, light), BlendChannel(CDay.G, CNight.G, light),
          BlendChannel(CDay.B, CNight.B, light), F(1))

\* One channel of BlendClouds: base + (1 - base) * cloud * cloudAlpha.
CloudOver(base, cloud, cloudAlpha) ==
    FAdd(base, FMul(FMul(FSub(F(1), base), cloud), cloudAlpha))

\* BlendClouds(C, CCloud, light, boost)
BlendClouds(C, CCloud, light, boost) ==
    Do([brightness \in {FDiv(FAdd(FAdd(CCloud.R, CCloud.G), CCloud.B), F(3))} |->
    Do([cloudAlpha \in {FMul(FMul(brightness, light), boost)} |->
        Color(CloudOver(C.R, CCloud.R, cloudAlpha), CloudOver(C.G, CCloud.G, cloudAlpha),
              CloudOver(C.B, CCloud.B, cloudAlpha), C.A)])])

\* IsOcean(color, blueThreshold)
IsOcean(color, blueThreshold) ==
    FGt(color.B, FMul(color.R, blueThreshold)) /\ FGt(color.B, FMul(color.G, blueThreshold))

\* Reflect(v, n)
Reflect(v, n) == VSub(v, Scale(n, FMul(F(2), Dot(v, n))))

\* The highlight ApplySpecularHighlight adds to an ocean sample.
SpecularHighlight(c) ==
    Do([view \in {Normalize(Scale(c.RayDir, F(-1)))},
        R \in {Normalize(Reflect(Scale(c.SunDir, F(-1)), c.SurfaceNormal))} |->
    Do([specAngle \in {Clip(Dot(R, view), F(0), F(1))},
        normalView \in {Clip(Dot(c.SurfaceNormal, view), F(0), F(1))} |->
    Do([grazingFalloff \in {Pow(normalView, 3)} |->
    Do([specular \in {Clip(FMul(FMul(Pow(specAngle, 400), grazingFalloff), F(1)),
                           F(0), F(1))} |->
        CScale(Color(F(1), Q(97, 100), Q(9, 10), F(1)), specular)])])])])

\* ApplySpecularHighlight without its ocean test.
ApplySpecularHighlightAnywhere(c, Crgb, Cday) == CAdd(Crgb, SpecularHighlight(c))

\* ApplySpecularHighlight(ctx, Crgb, Cday)
ApplySpecularHighlight(c, Crgb, Cday) ==
    IF ~IsOcean(Cday, Q(11, 10)) THEN Crgb ELSE CAdd(Crgb, SpecularHighlight(c))

\* The constants H and rayleighStrength of ApplyAtmosphereOverlay.
H == 55
rayleighStrength == Q(1, 5)

\* ApplyAtmosphereOverlay: the lit and the unlit length of the atmosphere
\* segment, without the exception for rays through pure air.
ShadowSplitNoSkip(c) ==
    Do([shadow \in {intersectHalfCylinderForward(c.Origin, c.RayDir,
                                                 Scale(c.SunDir, F(-1)), F(Radius))},
        total \in {FSub(c.AtmosphereExitT, c.AtmosphereEntryT)} |->
    Do([shadowStart \in {MathMax(c.AtmosphereEntryT, shadow.t0)},
        shadowEnd \in {MathMin(c.AtmosphereExitT, shadow.t1)} |->
    Do([shadowLen \in {FSub(shadowEnd, shadowStart)} |->
    Do([counted \in {/\ shadow.hit
                     /\ FGt(shadowEnd, shadowStart)} |->
        [litLen |-> IF counted THEN FSub(total, shadowLen) ELSE total,
         unlitLen |-> IF counted THEN FAdd(F(0), shadowLen) ELSE F(0)]])])])])

\* ApplyAtmosphereOverlay: the lit and the unlit length of the atmosphere
\* segment (litLen, unlitLen), from the shadow intersection.
ShadowSplit(c) ==
    Do([shadow \in {intersectHalfCylinderForward(c.Origin, c.RayDir,
                                                 Scale(c.SunDir, F(-1)), F(Radius))},
        total \in {FSub(c.AtmosphereExitT, c.AtmosphereEntryT)} |->
    Do([shadowStart \in {MathMax(c.AtmosphereEntryT, shadow.t0)},
        shadowEnd \in {MathMin(c.AtmosphereExitT, shadow.t1)} |->
    Do([shadowLen \in {FSub(shadowEnd, shadowStart)} |->
    Do([counted \in {/\ shadow.hit
                     /\ FGt(shadowEnd, shadowStart)
                     /\ ~(FGt(total, shadowLen) /\ ~c.HitEarth)} |->
        [litLen |-> IF counted THEN FSub(total, shadowLen) ELSE total,
         unlitLen |-> IF counted THEN FAdd(F(0), shadowLen) ELSE F(0)]])])])])

\* ApplyAtmosphereOverlay past its first test: the overlay of a ray taken to
\* cross the atmosphere shell.
AtmosphereOverlay(c, base) ==
    Do([rimAmount \in {FMul(Pow(FSub(F(1), c.ViewDotNormal), 3), Q(3, 10))},
        split \in {ShadowSplit(c)} |->
    Do([rimColor \in {Mix(c.theme.DayRim, c.theme.OuterRim, rimAmount)},
        litLen \in {split.litLen}, unlitLen \in {split.unlitLen} |->
        IF FLe(litLen, F(0)) /\ FLe(unlitLen, F(0)) THEN CAdd(base, rimColor)
        ELSE
    Do([tMid \in {FMul(FAdd(c.AtmosphereExitT, c.AtmosphereEntryT), Q(1, 2))} |->
    Do([midPoint \in {VAdd(c.Origin, Scale(c.RayDir, tMid))} |->
    Do([avgHeight \in {FSub(Norm(midPoint), F(Radius))} |->
    Do([avgDensity \in {Exp(FDiv(Neg(avgHeight), F(H)))} |->
    Do([lit0 \in {Clip(FMul(FMul(Log(FAdd(litLen, unlitLen)), avgDensity),
                            rayleighStrength), F(0), F(1))},
        viewToSun \in {Dot(c.SunDir, c.RayDir)} |->
    Do([lit1 \in {IF ~c.HitEarth THEN FMul(lit0, Q(1, 2)) ELSE lit0},
        sunAngle \in {FMul(FSub(F(1), viewToSun), Q(1, 2))} |->
    Do([litAmount \in {IF ~c.HitEarth /\ FGt(sunAngle, Q(1, 2))
                       THEN FMul(lit1, Smoothstep(Q(54, 100), Q(1, 2), sunAngle))
                       ELSE lit1},
        skyColor \in {Color(Lerp(F(1), c.theme.DayRim.R, sunAngle),
                            Lerp(F(1), c.theme.DayRim.G, sunAngle),
                            Lerp(F(1), c.theme.DayRim.B, sunAngle), c.theme.DayRim.A)},
        wNight \in {FDiv(unlitLen, FAdd(FAdd(litLen, unlitLen), Q(1, 100000)))} |->
    Do([tint \in {Mix(skyColor, c.theme.NightRim, wNight)} |->
        Mix(base, tint, litAmount)])])])])])])])])])])

\* ApplyAtmosphereOverlay without its HitsAtmosphere test.
ApplyAtmosphereOverlayAlways(c, base) == AtmosphereOverlay(c, base)

\* ApplyAtmosphereOverlay(ctx, base)
ApplyAtmosphereOverlay(c, base) ==
    IF ~c.HitsAtmosphere THEN base ELSE AtmosphereOverlay(c, base)

\* One component of a supersampling offset: (i + 0.5) * step - 0.5.
OffsetAt(i, step) == FSub(FMul(FAdd(F(i), Q(1, 2)), step), Q(1, 2))

\* An offset that takes both components from the outer loop index.
OffsetOuterOnly(n, k) ==
    Do([step \in {FDiv(F(1), F(n))} |-> <<OffsetAt(k \div n, step), OffsetAt(k \div n, step)>>])

\* The k-th offset (k = 0 .. n*n-1) of GenerateSupersamplingOffsets(n): the
\* pair of the loop indices i = k / n, j = k % n.
Offset(n, k) ==
    Do([step \in {FDiv(F(1), F(n))} |-> <<OffsetAt(k \div n, step), OffsetAt(k % n, step)>>])

\* GenerateSupersamplingOffsets(n): the offsets in the order they are appended.
GenerateSupersamplingOffsets(n) ==
    IF n <= 0 THEN <<>> ELSE [k \in 1..(n * n) |-> Offset(n, k - 1)]

-----------------------------------------------------------------------------
(* Camera and textures *)

\* One normalised device coordinate: (i - (w-1)/2) / ((w-1)/2).
NDC(i, w) == Do([half \in {FDiv(FSub(w, F(1)), F(2))} |-> FDiv(FSub(i, half), half)])

\* Camera.ComputeRay(i, j, width, height)
ComputeRay(c, i, j, width, height) ==
    Do([xNDC \in {NDC(i, F(width))}, yNDC \in {Neg(NDC(j, F(height)))} |->
    Do([xPlane \in {FMul(xNDC, c.TanHalfFOV)}, yPlane \in {FMul(yNDC, c.TanHalfFOV)},
        zPlane \in {F(1)} |->
    Do([dir \in {VAdd(VAdd(Scale(c.Right, xPlane), Scale(c.Up, yPlane)),
                      Scale(c.Forward, zPlane))} |->
        Normalize(dir)])])])

\* deg * math.Pi / 180.0
Radians(deg) == FDiv(FMul(deg, Pi), F(180))

\* rotateVec: v*cos + (axis x v)*sin + axis*(axis.v)*(1-cos)
rotateVec(v, axis, cosT, sinT) ==
    VAdd(VAdd(Scale(v, cosT), Scale(Cross(axis, v), sinT)),
         Scale(axis, FMul(Dot(axis, v), FSub(F(1), cosT))))

\* tiltCamera: forward and up rotated around the right axis; the result is
\* <<fwdNew, right, upNew>>.
tiltCamera(fwd, right, up, tiltDeg) ==
    Do([theta \in {Radians(tiltDeg)} |->
    Do([c \in {Cos(theta)}, s \in {Sin(theta)} |->
        <<Normalize(rotateVec(fwd, right, c, s)), right,
          Normalize(rotateVec(up, right, c, s))>>])])

\* yawCamera: forward and right rotated around the up axis; the result is
\* <<fwdNew, rightNew, up>>.
yawCamera(fwd, right, up, yawDeg) ==
    Do([theta \in {Radians(yawDeg)} |->
    Do([c \in {Cos(theta)}, s \in {Sin(theta)} |->
        <<Normalize(rotateVec(fwd, up, c, s)),
          Normalize(rotateVec(right, up, c, s)), up>>])])

\* NewCamera: the position of the camera.
CameraPosition(latDeg, lonDeg, altKm) ==
    Do([lat \in {Radians(latDeg)}, lon \in {Radians(lonDeg)},
        camRadius \in {FAdd(F(Radius), altKm)} |->
        Vec(FMul(FMul(camRadius, Cos(lat)), Cos(lon)),
            FMul(FMul(camRadius, Cos(lat)), Sin(lon)),
            FMul(camRadius, Sin(lat)))])

\* NewCamera: the basis vectors <<fwd, right, up>> before tilt and yaw, with
\* the fallback right axis where forward is parallel to the global up.
CameraBasis(pos) ==
    Do([fwd \in {Scale(Normalize(pos), F(-1))} |->
    Do([cross \in {Cross(fwd, Vec(F(0), F(0), F(1)))} |->
    Do([right \in {Normalize(IF FLt(Norm(cross), Q(1, 1000000))
                             THEN Vec(F(1), F(0), F(0)) ELSE cross)} |->
        <<fwd, right, Normalize(Cross(right, fwd))>>])])])

\* NewCamera: the four rotations applied to the basis b.
CameraRotations(b, tiltDeg, yawDeg) ==
    Do([t1 \in {tiltCamera(b[1], b[2], b[3], F(90))} |->
    Do([yw \in {IF yawDeg # F(0) THEN yawCamera(t1[1], t1[2], t1[3], yawDeg) ELSE t1} |->
    Do([t2 \in {tiltCamera(yw[1], yw[2], yw[3], F(-90))} |->
        IF tiltDeg # F(0) THEN tiltCamera(t2[1], t2[2], t2[3], tiltDeg) ELSE t2])])])

\* NewCamera(latDeg, lonDeg, altKm, fovDeg, tiltDeg, yawDeg)
NewCamera(latDeg, lonDeg, altKm, fovDeg, tiltDeg, yawDeg) ==
    Do([pos \in {CameraPosition(latDeg, lonDeg, altKm)} |->
    Do([b \in {CameraRotations(CameraBasis(pos), tiltDeg, yawDeg)} |->
        [FOVDeg |-> fovDeg, TanHalfFOV |-> Tan(FDiv(Radians(fovDeg), F(2))),
         Position |-> pos, Forward |-> b[1], Right |-> b[2], Up |-> b[3]]])])

\* The three texture files of the theme, as LoadTexture decodes them: the
\* size and the texels, row by row, as FromStandardColor returns them.
Ocean == Color(Q(1, 10), Q(1, 5), Q(1, 2), F(1))
Land == Color(Q(1, 2), Q(2, 5), Q(1, 5), F(1))
Dark == Color(F(0), F(0), Q(1, 20), F(1))
City == Color(Q(4, 5), Q(3, 5), Q(1, 5), F(1))
Clear == Color(F(0), F(0), F(0), F(1))
Cloud == Color(Q(1, 2), Q(1, 2), Q(1, 2), F(1))
TextureFiles ==
    [day    |-> [Width |-> 4, Height |-> 2,
                 img |-> <<<<Land, Ocean, Ocean, Land>>, <<Ocean, Land, Ocean, Land>>>>],
     night  |-> [Width |-> 4, Height |-> 2,
                 img |-> <<<<City, Dark, Dark, City>>, <<Dark, City, Dark, Dark>>>>],
     clouds |-> [Width |-> 4, Height |-> 2,
                 img |-> <<<<Clear, Cloud, Clear, Cloud>>, <<Cloud, Clear, Cloud, Clear>>>>]]

\* The conversion int(u) of a NaN or an infinity: the language leaves it to
\* the implementation; a build fixes one value.
IntOfNonFinite == CHOOSE i \in {-1000000, 0, 1000000} : TRUE
IntOfWith(u, nonFinite) == IF IsFin(u) THEN Trunc(u) ELSE nonFinite
IntOf(u) == IntOfWith(u, IntOfNonFinite)

\* Texture.getXY(P) of a texture of the size given, in a build that converts
\* a non-finite float to the int nonFinite.
getXYIn(Width, Height, P, nonFinite) ==
    Do([lat \in {Atan2(P.Z, Sqrt(FAdd(FMul(P.X, P.X), FMul(P.Y, P.Y))))},
        lon0 \in {Atan2(P.Y, P.X)} |->
    Do([lon \in {IF FLt(lon0, F(0)) THEN FAdd(lon0, FMul(F(2), Pi)) ELSE lon0} |->
    Do([u0 \in {FAdd(FDiv(F(Width), F(2)),
                     FMul(FDiv(lon, FMul(F(2), Pi)), F(Width - 1)))} |->
    Do([u1 \in {Mod(u0, F(Width))} |->
    Do([u \in {IF FLt(u1, F(0)) THEN FAdd(u1, F(Width)) ELSE u1},
        v \in {FMul(FSub(Q(1, 2), FDiv(lat, Pi)), F(Height - 1))} |->
        <<IntOfWith(u, nonFinite), IntOfWith(v, nonFinite)>>])])])])])

\* Texture.getXY(P)
getXY(t, P) ==
    getXYIn(TextureFiles[t].Width, TextureFiles[t].Height, P, IntOfNonFinite)

\* The clamp of getColorAtXY: a coordinate below 0 becomes 0, one at or above
\* the size becomes size - 1.
ClampIndexLowOnly(x, size) == IF x < 0 THEN 0 ELSE x
ClampIndex(x, size) == IF x < 0 THEN 0 ELSE IF x >= size THEN size - 1 ELSE x

\* getColorAtXY: the coordinates it passes to img.At.
TexelAt(Width, Height, xy) == <<ClampIndex(xy[1], Width), ClampIndex(xy[2], Height)>>

\* Texture.getColorAtXY(x, y)
getColorAtXY(t, xy) ==
    Do([at \in {TexelAt(TextureFiles[t].Width, TextureFiles[t].Height, xy)} |->
        TextureFiles[t].img[at[2] + 1][at[1] + 1]])

\* Texture.Sample(P)
Sample(t, P) == getColorAtXY(t, getXY(t, P))

-----------------------------------------------------------------------------
(* The surface, the sun and the frame *)

\* RenderEarthSurface(ctx)
RenderEarthSurface(c) ==
    Do([CDay \in {Sample(c.TexDay, c.HitPoint)},
        CNight \in {Sample(c.TexNight, c.HitPoint)},
        CClouds \in {Sample(c.TexClouds, c.HitPoint)},
        sunLightIntensity \in {Dot(c.SurfaceNormal, c.SunDir)} |->
    Do([light \in {Smoothstep(Q(-1, 4), Q(1, 20), sunLightIntensity)} |->
    Do([CNightDay \in {BlendNightDay(c, CDay, CNight, light)} |->
    Do([CBlended \in {BlendClouds(CNightDay, CClouds, light, F(2))} |->
        ApplySpecularHighlight(c, CBlended, CDay)])])])])

\* The constants sunAngularRadius and glowAngularRadius of RenderSunDisk.
sunAngularRadius == Q(23, 5000)
glowAngularRadius == FMul(sunAngularRadius, F(5))

\* RenderSunDisk: base with the wide-angle forward scattering added.
SunGlow(c, base) ==
    Do([sunViewAngle \in {Acos(Dot(c.SunDir, c.RayDir))},
        horizonAngle \in {Acos(c.ViewDotNormal)} |->
    Do([sunInView \in {Smoothstep(Q(3, 10), F(0), sunViewAngle)} |->
        IF FGt(sunInView, F(0))
        THEN Do([sunNearHorizon \in
                   {Smoothstep(Q(-1, 10), Q(1, 10),
                               FAbs(FSub(horizonAngle, HalfPi)))} |->
             Do([scatteringGlow \in
                   {Pow(FMul(FMul(sunNearHorizon, sunInView), Q(4, 5)), 3)} |->
                 CAdd(base, CScale(Color(F(1), Q(7, 10), Q(2, 5), F(1)),
                                   scatteringGlow))])])
        ELSE base])])

\* RenderSunDisk past its HitEarth test: the sun's disk mixed onto base.
SunDiskMix(c, base) ==
    Do([cosTheta \in {Dot(c.RayDir, c.SunDir)} |->
        IF FLe(cosTheta, F(0)) THEN base
        ELSE Do([theta \in {Acos(cosTheta)} |->
                 IF FGt(theta, glowAngularRadius) THEN base
                 ELSE Do([t \in {Smoothstep(glowAngularRadius,
                                            sunAngularRadius, theta)} |->
                      Do([sunIntensity \in {Pow(t, 2)} |->
                          Mix(base, Color(F(1), F(1), F(1), F(1)),
                              sunIntensity)])])])])

\* RenderSunDisk with the HitEarth test ahead of the forward scattering.
RenderSunDiskEarthFirst(c, base) ==
    IF FEq(c.GlobalSunFraction, F(0)) THEN base
    ELSE IF c.HitEarth THEN base
    ELSE SunDiskMix(c, SunGlow(c, base))

\* RenderSunDisk(ctx, base)
RenderSunDisk(c, base) ==
    IF FEq(c.GlobalSunFraction, F(0)) THEN base
    ELSE Do([glowing \in {SunGlow(c, base)} |->
             IF c.HitEarth THEN glowing ELSE SunDiskMix(c, glowing)])

\* The constants sunDistance and sunRadius of SunVisibleFraction, in km.
sunDistance == Q(1495978707, 10)
sunRadius == F(695700)

\* x * x
Sq(x) == FMul(x, x)

\* One lens of the overlap of two discs of angular radii r1 and r2 whose centres
\* are d apart: r1^2 * acos((d^2 + r1^2 - r2^2) / (2 * d * r1)).
Lens(d, r1, r2) ==
    FMul(Sq(r1), Acos(FDiv(FSub(FAdd(Sq(d), Sq(r1)), Sq(r2)), FMul(FMul(F(2), d), r1))))

\* SunVisibleFraction(camPos, sunDir)
SunVisibleFraction(camPos, sunDir) ==
    Do([r \in {Norm(camPos)},
        RS \in {Asin(FDiv(sunRadius, sunDistance))},
        cosAngle \in {Dot(Normalize(camPos), Scale(sunDir, F(-1)))} |->
    Do([RE \in {Asin(FDiv(F(Radius), r))},
        d \in {Acos(Clip(cosAngle, F(-1), F(1)))} |->
        IF FGe(d, FAdd(RE, RS)) THEN F(1)
        ELSE IF FLe(d, FAbs(FSub(RE, RS))) THEN (IF FGt(RE, RS) THEN F(0) ELSE F(1))
        ELSE
    Do([part1 \in {Lens(d, RS, RE)},
        part2 \in {Lens(d, RE, RS)},
        part3 \in {FMul(Q(1, 2),
                        Sqrt(FMul(FMul(FMul(FAdd(FAdd(Neg(d), RS), RE),
                                            FSub(FAdd(d, RS), RE)),
                                       FAdd(FSub(d, RS), RE)),
                                  FAdd(FAdd(d, RS), RE))))},
        sunArea \in {FMul(FMul(Pi, RS), RS)} |->
    Do([areaVisible \in {FSub(sunArea, FSub(FAdd(part1, part2), part3))} |->
        Clip(FDiv(areaVisible, sunArea), F(0), F(1))])])])])

\* The aspect ratio ar of RaytraceScenePixels.
ar == F(1)

\* The sample loop's first statements: the ray of pixel (x, y) at offset off
\* is set on the context.
TraceSample(c, camera, x, y, off, W, Hgt) ==
    SetRayDirection(c, ComputeRay(camera, FAdd(F(x), off[1]),
                                  FMul(FAdd(F(y), off[2]), ar), W, Hgt))

\* The rest of the sample loop's body: the colour of the sample the context
\* holds.
ShadeSample(c) ==
    Do([surface \in {IF FGt(c.TEarth, F(0)) THEN RenderEarthSurface(c) ELSE Black} |->
        RenderSunDisk(c, ApplyAtmosphereOverlay(c, surface))])

\* The rest of the sample loop's body: the shading functions it calls, in
\* the order it calls them.
ShadeCalls(c) ==
    (IF FGt(c.TEarth, F(0)) THEN <<"RenderEarthSurface">> ELSE <<>>)
        \o <<"ApplyAtmosphereOverlay", "RenderSunDisk">>

\* The zero value colors.Color4{} the accumulator starts from.
NoColor == Color(F(0), F(0), F(0), F(0))

\* The pixel loop's last statements with the saturation boost ahead of the
\* warm tint.
PixelOutBoostFirst(colorAccum, N, theme) ==
    Do([scaled \in {CScale(colorAccum, FDiv(F(1), F(N)))} |->
    Do([boosted \in {BoostSaturation(scaled, Q(3, 2))} |->
    Do([warmed \in {CMul(boosted, theme.Warm)} |->
    Do([colorOut \in {CompositeOverBlack(warmed)} |-> ToNRGBA(colorOut)])])])])

\* What the pixel loop does with the accumulated colour of N samples.
PixelOut(colorAccum, N, theme) ==
    Do([scaled \in {CScale(colorAccum, FDiv(F(1), F(N)))} |->
    Do([warmed \in {CMul(scaled, theme.Warm)} |->
    Do([boosted \in {BoostSaturation(warmed, Q(3, 2))} |->
    Do([colorOut \in {CompositeOverBlack(boosted)} |-> ToNRGBA(colorOut)])])])])


\* image.NewNRGBA: every pixel of the new image is zero.
NewNRGBA(W, Hgt) == [p \in (0..(W - 1)) \X (0..(Hgt - 1)) |-> <<0, 0, 0, 0>>]

\* The context RenderScene creates with NewRayContext, after the statement
\* ctx.GlobalSunFraction = SunVisibleFraction(camera.Position, ctx.SunDir)
\* of RaytraceScenePixels.
RenderContext(camera, sunDir, theme) ==
    [NewRayContext(camera.Position, sunDir, theme, theme.Day, theme.Night, theme.Clouds)
        EXCEPT !.GlobalSunFraction = SunVisibleFraction(camera.Position, sunDir)]

-----------------------------------------------------------------------------
(* Scenes and rays *)

\* Longest sequence of SetRayDirection calls explored on one context.
MaxCalls == 2

\* Unit ray directions: the six axis directions and the 3-4-5 directions of
\* the XY plane.
AxisDirs ==
    {Vec(F(x), F(y), F(z)) : <<x, y, z>> \in
        {<<1, 0, 0>>, <<-1, 0, 0>>, <<0, 1, 0>>, <<0, -1, 0>>, <<0, 0, 1>>, <<0, 0, -1>>}}
SlantDirs ==
    {Vec(Q(sx * 3, 5), Q(sy * 4, 5), F(0)) : sx \in {-1, 1}, sy \in {-1, 1}}
    \cup {Vec(Q(sx * 4, 5), Q(sy * 3, 5), F(0)) : sx \in {-1, 1}, sy \in {-1, 1}}
UnitDirs == AxisDirs \cup SlantDirs

\* Degenerate directions: the zero vector (Normalize of a zero-length vector)
\* and a direction with NaN components (ComputeRay of a one-pixel-wide image
\* divides by (w-1)/2 = 0).
NaNDir == Vec(NaN, NaN, NaN)
DegenerateDirs == {Zero, NaNDir}
RayDirs == UnitDirs \cup DegenerateDirs

\* Camera positions (km from the earth's centre) and sun directions.
Origins == {Vec(F(10700), F(0), F(0)), Vec(F(7900), F(0), F(0)), Vec(F(0), F(15000), F(0))}
SunDirs == {Vec(F(1), F(0), F(0)), Vec(F(0), F(-1), F(0)), Vec(Q(-3, 5), Q(4, 5), F(0))}

NoProbe == [op |-> "none"]
NoContext == [Origin |-> Zero]

\* The variables of a frame being rendered, and their values while no frame
\* is rendered.
frame == <<scene, seq, contexts, workers, img, tiff>>
NoScene == [outSize |-> 0]
NoTiff == [cache |-> <<>>]
NoFrame ==
    /\ scene = NoScene
    /\ seq = [pc |-> "done"]
    /\ contexts = <<>>
    /\ workers = <<>>
    /\ img = <<>>
    /\ tiff = NoTiff

-----------------------------------------------------------------------------
(* The sequential use of one RayContext *)

Init ==
    /\ ctx \in {NewRayContext(o, s, DefaultTheme, "day", "night", "clouds") :
                    o \in Origins, s \in SunDirs}
    /\ trace = <<>>
    /\ probe = NoProbe
    /\ NoFrame

\* ctx.SetRayDirection(d), as RaytraceScenePixels calls it once per sample.
SetRay ==
    /\ Len(trace) < MaxCalls
    /\ \E d \in RayDirs :
        /\ ctx' = SetRayDirection(ctx, d)
        /\ trace' = Append(trace, d)
        /\ UNCHANGED <<probe, frame>>

Next == SetRay

Spec == Init /\ [][Next]_vars

\* A fresh context of the same scene after the single call SetRayDirection(d).
Fresh(c, d) ==
    SetRayDirection(
        NewRayContext(c.Origin, c.SunDir, c.theme, c.TexDay, c.TexNight, c.TexClouds), d)

\* C1: after any sequence of SetRayDirection calls, every per-ray field of the
\* context equals the field of a fresh context of the same origin and sun after
\* a single SetRayDirection(d), d the last direction set.
C1_PerRayFieldsPure ==
    Len(trace) >= 1 => PerRay(ctx) = PerRay(Fresh(ctx, trace[Len(trace)]))

\* C1 witness: a miss set right after a hit on the same context.
C1_Witness ==
    /\ Len(trace) = 2
    /\ ~ctx.HitEarth
    /\ Fresh(ctx, trace[1]).HitEarth
    /\ ctx.HitsAtmosphere

-----------------------------------------------------------------------------
(* The intersection library, called on its own *)

\* Largest origin coordinate and largest radius of the calls explored.
MaxCoord == 4
MaxRadius == 3

ProbeOrigins ==
    {Vec(F(x), F(y), F(z)) : x \in -MaxCoord..MaxCoord, y \in -MaxCoord..MaxCoord,
                             z \in {0, 2}}
ProbeRadii == {F(r) : r \in 1..MaxRadius}
ProbeAxes == {Vec(F(1), F(0), F(0)), Vec(F(0), F(-1), F(0)), Vec(Q(-3, 5), Q(4, 5), F(0))}

InitGeom ==
    /\ ctx = NoContext
    /\ trace = <<>>
    /\ probe = NoProbe
    /\ NoFrame

CallSphere ==
    /\ probe = NoProbe
    /\ \E o \in ProbeOrigins, d \in RayDirs, r \in ProbeRadii :
        /\ probe' = [op |-> "sphere", origin |-> o, dir |-> d, axis |-> Zero,
                     radius |-> r, ret |-> intersectSphereForward(o, d, r)]
        /\ UNCHANGED <<ctx, trace, frame>>

CallCylinder ==
    /\ probe = NoProbe
    /\ \E o \in ProbeOrigins, d \in RayDirs, v \in ProbeAxes, r \in ProbeRadii :
        /\ probe' = [op |-> "cylinder", origin |-> o, dir |-> d, axis |-> v,
                     radius |-> r, ret |-> intersectHalfCylinderForward(o, d, v, r)]
        /\ UNCHANGED <<ctx, trace, frame>>

NextGeom == CallSphere \/ CallCylinder

SpecGeom == InitGeom /\ [][NextGeom]_vars

\* The quadratic |origin + t*dir|^2 = radius^2 of a call: its coefficients,
\* its discriminant and its two roots.
QuadA(p) == Dot(p.dir, p.dir)
QuadB(p) == FMul(F(2), Dot(p.origin, p.dir))
QuadC(p) == FSub(Dot(p.origin, p.origin), FMul(p.radius, p.radius))
Disc(p) == FSub(FMul(QuadB(p), QuadB(p)), FMul(FMul(F(4), QuadA(p)), QuadC(p)))
NearRoot(p) == FDiv(FSub(Neg(QuadB(p)), Sqrt(Disc(p))), FMul(F(2), QuadA(p)))
FarRoot(p) == FDiv(FAdd(Neg(QuadB(p)), Sqrt(Disc(p))), FMul(F(2), QuadA(p)))

\* C2: intersectSphereForward returns hit=false exactly when the discriminant
\* is negative or the far root is negative; in every other case it returns
\* hit=true with tNear = max(0, near root), tFar = far root and tNear <= tFar.
C2_SphereRoots ==
    probe.op = "sphere" =>
        /\ ~probe.ret.hit <=> (FLt(Disc(probe), F(0)) \/ FLt(FarRoot(probe), F(0)))
        /\ probe.ret.hit =>
            /\ probe.ret.t0 = MathMax(F(0), NearRoot(probe))
            /\ probe.ret.t1 = FarRoot(probe)
            /\ FLe(probe.ret.t0, probe.ret.t1)

IsUnit(d) == FEq(Dot(d, d), F(1))
Outside(p) == FGt(Dot(p.origin, p.origin), FMul(p.radius, p.radius))

\* The direction of a call points toward the sphere within its angular radius
\* as seen from the origin: origin.dir < 0 and the squared distance from the
\* centre to the ray's line, |origin|^2 - (origin.dir)^2, is at most radius^2.
Toward(p) ==
    LET od == Dot(p.origin, p.dir) IN
    /\ FLt(od, F(0))
    /\ FLe(FSub(Dot(p.origin, p.origin), FMul(od, od)), FMul(p.radius, p.radius))

\* C3: from an origin strictly outside the sphere, a unit direction is
\* reported as a hit if and only if it points toward the sphere within its
\* angular radius; a ray pointing away is never a hit.
C3_HitIffToward ==
    (probe.op = "sphere" /\ Outside(probe) /\ IsUnit(probe.dir)) =>
        (probe.ret.hit <=> Toward(probe))

\* C3 witness: a ray pointing away from a sphere its line crosses, reported
\* as a miss.
C3_Witness ==
    /\ probe.op = "sphere" /\ Outside(probe) /\ IsUnit(probe.dir)
    /\ FGt(Dot(probe.origin, probe.dir), F(0))
    /\ FGe(Disc(probe), F(0))
    /\ ~probe.ret.hit

Degenerate(p) ==
    \/ p.dir = Zero
    \/ p.dir = NaNDir
    \/ (p.op = "sphere" /\ FLt(Disc(p), F(0)))
    \/ (p.op = "cylinder" /\ IsUnit(p.dir) /\ (p.dir = p.axis \/ p.dir = Scale(p.axis, F(-1))))

\* C4: a zero-length direction, a NaN component, a negative discriminant or a
\* ray parallel to the cylinder axis is reported as hit=false by both
\* intersection routines.
C4_DegenerateIsMiss ==
    (probe.op \in {"sphere", "cylinder"} /\ Degenerate(probe)) => ~probe.ret.hit

-----------------------------------------------------------------------------
(* The shading helpers that read no RayContext, called on their own *)

MaxSupersampling == 3

Edges == {Q(-1, 4), F(0), Q(1, 20), Q(3, 10), Q(1, 2), Q(27, 50)}
Samples == {Q(-1, 2), Q(-1, 4), F(0), Q(1, 40), Q(1, 20), Q(1, 4), Q(3, 10),
            Q(1, 2), Q(13, 25), Q(27, 50), F(1)}
Lights == {F(0), Q(1, 4), Q(1, 2), F(1)}
TexelColors == {Color(Q(1, 10), Q(1, 5), Q(1, 2), F(1)),
                Color(Q(1, 2), Q(2, 5), Q(1, 5), F(1)),
                Color(F(0), F(0), F(0), F(1)),
                Color(F(1), F(1), Q(3, 4), Q(1, 2))}

InitMath ==
    /\ ctx = NoContext
    /\ trace = <<>>
    /\ probe = NoProbe
    /\ NoFrame

CallSmoothstep ==
    /\ probe = NoProbe
    /\ \E e0 \in Edges, e1 \in Edges, x \in Samples :
         /\ probe' = [op |-> "smoothstep", edge0 |-> e0, edge1 |-> e1, x |-> x,
                      ret |-> Smoothstep(e0, e1, x)]
         /\ UNCHANGED <<ctx, trace, frame>>

CallBlendNightDay ==
    /\ probe = NoProbe
    /\ \E day \in TexelColors, night \in TexelColors, light \in Lights :
         /\ probe' = [op |-> "blend", CDay |-> day, CNight |-> night, light |-> light,
                      ret |-> BlendNightDay(ctx, day, night, light)]
         /\ UNCHANGED <<ctx, trace, frame>>

CallOffsets ==
    /\ probe = NoProbe
    /\ \E n \in -1..MaxSupersampling :
         /\ probe' = [op |-> "offsets", n |-> n, ret |-> GenerateSupersamplingOffsets(n)]
         /\ UNCHANGED <<ctx, trace, frame>>

\* BlendClouds as RenderEarthSurface calls it, with boost 2.0.
CallBlendClouds ==
    /\ probe = NoProbe
    /\ \E C \in TexelColors, CCloud \in TexelColors, light \in Lights :
         /\ probe' = [op |-> "clouds", C |-> C, CCloud |-> CCloud, light |-> light,
                      boost |-> F(2), ret |-> BlendClouds(C, CCloud, light, F(2))]
         /\ UNCHANGED <<ctx, trace, frame>>

\* Channel values around the ends of the range and the steps of the 8-bit
\* scale, and the NaN a pixel without samples has.
Channels == {F(-1), Q(-1, 510), F(0), Q(1, 510), Q(1, 256), Q(1, 255), Q(1, 3), Q(1, 2),
             Q(127, 255), Q(199, 200), Q(254, 255), Q(509, 510), F(1), Q(3, 2), NaN}

CallToNRGBA ==
    /\ probe = NoProbe
    /\ \E r \in Channels, g \in Channels :
         /\ probe' = [op |-> "ToNRGBA", c |-> Color(r, g, Q(1, 2), F(1)),
                      ret |-> ToNRGBA(Color(r, g, Q(1, 2), F(1)))]
         /\ UNCHANGED <<ctx, trace, frame>>

NextMath ==
    CallSmoothstep \/ CallBlendNightDay \/ CallOffsets \/ CallBlendClouds \/ CallToNRGBA

SpecMath == InitMath /\ [][NextMath]_vars

C6_BlendEndpoints ==
    probe.op = "blend" =>
        /\ probe.ret.A = F(1)
        /\ probe.light = F(0) =>
             /\ probe.ret.R = probe.CNight.R
             /\ probe.ret.G = probe.CNight.G
             /\ probe.ret.B = probe.CNight.B
        /\ probe.light = F(1) =>
             /\ probe.ret.R = probe.CDay.R
             /\ probe.ret.G = probe.CDay.G
             /\ probe.ret.B = probe.CDay.B

C6_Witness ==
    /\ probe.op = "blend"
    /\ probe.light = F(0)
    /\ probe.CDay.R # probe.CNight.R
    /\ probe.CNight.A # F(1)
    /\ probe.ret.R = probe.CNight.R

\* C9: for n >= 1 GenerateSupersamplingOffsets(n) returns exactly n*n pairwise
\* distinct offsets, every component within [-0.5, 0.5], evenly spaced with
\* step 1/n and centred on 0, in row-major order of the two loop indices; for
\* n <= 0 it returns no offsets.
C9_OffsetsGrid ==
    probe.op = "offsets" =>
        LET n == probe.n
            out == probe.ret
        IN  IF n <= 0 THEN out = <<>>
            ELSE /\ Len(out) = n * n
                 /\ \A k, l \in 1..Len(out) : k # l => out[k] # out[l]
                 /\ \A k \in 1..Len(out) : \A m \in 1..2 :
                      FGe(out[k][m], Q(-1, 2)) /\ FLe(out[k][m], Q(1, 2))
                 /\ \A i, j \in 0..(n - 1) :
                      out[i * n + j + 1] = <<Q(2 * i + 1 - n, 2 * n), Q(2 * j + 1 - n, 2 * n)>>
                 /\ \A k \in 1..(Len(out) - 1) :
                      k % n # 0 => FSub(out[k + 1][2], out[k][2]) = Q(1, n)
                 /\ \A k \in 1..Len(out) :
                      out[Len(out) + 1 - k] = <<Neg(out[k][1]), Neg(out[k][2])>>

C9_Witness ==
    /\ probe.op = "offsets"
    /\ probe.n = 3
    /\ Len(probe.ret) = 9
    /\ probe.ret[5] = <<F(0), F(0)>>

-----------------------------------------------------------------------------
(* The shading functions that read the RayContext, called after a sample *)

\* The contexts RaytraceScenePixels shades: a context of the scene with a ray
\* direction set on it.
SampledContexts ==
    {SetRayDirection(NewRayContext(o, s, DefaultTheme, "day", "night", "clouds"), d) :
        o \in Origins, s \in SunDirs, d \in RayDirs}
BaseColors == {Black, Color(Q(1, 4), Q(1, 2), Q(1, 4), F(1))}
DayTexels == {Color(Q(1, 10), Q(1, 5), Q(1, 2), F(1)),
              Color(Q(1, 2), Q(2, 5), Q(1, 5), F(1))}

\* A ray that meets the surface at a glancing angle, at a point of the
\* terminator (the sun is in the tangent plane), close to the mirror
\* direction of the sunlight.
GlancingContexts ==
    {SetRayDirection(NewRayContext(Vec(F(6471), F(800), F(400)),
                                   Vec(F(0), Q(-15, 17), Q(-8, 17)),
                                   DefaultTheme, "day", "night", "clouds"),
                     Vec(Q(-1, 9), Q(-8, 9), Q(-4, 9)))}

TerminatorOrigins == {Vec(F(10700), F(500), F(0)), Vec(F(10700), F(500), F(6370))}
TerminatorContexts ==
    {SetRayDirection(NewRayContext(o, Vec(F(0), F(-1), F(0)),
                                   DefaultTheme, "day", "night", "clouds"),
                     Vec(F(-1), F(0), F(0))) : o \in TerminatorOrigins}
\* Views near the sun, as <<camera position, sun direction, ray direction>>:
\* a ray that hits the earth 0.15 rad from a sun that is clear of the earth's
\* disc, a ray at the centre of that sun, and a ray at a sun that is behind
\* the earth.
SunViews ==
    {<<Vec(F(7900), F(0), F(0)), Vec(Q(-8, 17), Q(15, 17), F(0)), Vec(Q(-3, 5), Q(4, 5), F(0))>>,
     <<Vec(F(7900), F(0), F(0)), Vec(Q(-8, 17), Q(15, 17), F(0)), Vec(Q(-8, 17), Q(15, 17), F(0))>>,
     <<Vec(F(7900), F(0), F(0)), Vec(Q(-3, 5), Q(4, 5), F(0)), Vec(Q(-3, 5), Q(4, 5), F(0))>>}
\* A camera that sees the sun's centre on the earth's limb (asin(6371 / r) and
\* acos(4 / 5) are both 0.6435), looking at the sun's centre, in and just
\* outside the limb.  About half of the sun's disc is covered; the sun's
\* angular radius (0.0047) is too close to the arithmetic's grid for
\* SunVisibleFraction to resolve the share, which is given here.
HalfCovered == Q(1, 2)
EclipseViews ==
    {<<Vec(F(r), F(0), F(0)), Vec(Q(-4, 5), Q(3, 5), F(0)), Vec(Q(-4, 5), Q(3, 5), F(0))>> :
        r \in {10618, 10620}}
SunContexts ==
    {[SetRayDirection(NewRayContext(v[1], v[2], DefaultTheme, "day", "night", "clouds"), v[3])
        EXCEPT !.GlobalSunFraction = SunVisibleFraction(v[1], v[2])] : v \in SunViews}
    \cup
    {[SetRayDirection(NewRayContext(v[1], v[2], DefaultTheme, "day", "night", "clouds"), v[3])
        EXCEPT !.GlobalSunFraction = HalfCovered] : v \in EclipseViews}
InitShade ==
    /\ ctx \in SampledContexts \cup GlancingContexts \cup TerminatorContexts \cup SunContexts
    /\ trace = <<>>
    /\ probe = NoProbe
    /\ NoFrame

CallSpecular ==
    /\ probe = NoProbe
    /\ \E Crgb \in BaseColors, Cday \in DayTexels :
         /\ probe' = [op |-> "specular", Crgb |-> Crgb, Cday |-> Cday,
                      ret |-> ApplySpecularHighlight(ctx, Crgb, Cday)]
         /\ UNCHANGED <<ctx, trace, frame>>

CallOverlay ==
    /\ probe = NoProbe
    /\ \E base \in BaseColors :
         /\ probe' = [op |-> "overlay", base |-> base,
                      split |-> ShadowSplit(ctx),
                      ret |-> ApplyAtmosphereOverlay(ctx, base)]
         /\ UNCHANGED <<ctx, trace, frame>>

\* A camera below the surface, 5000 km from the earth's centre.
CallSunDisk ==
    /\ probe = NoProbe
    /\ \E base \in BaseColors :
         /\ probe' = [op |-> "sun", base |-> base,
                      ret |-> RenderSunDisk(ctx, base)]
         /\ UNCHANGED <<ctx, trace, frame>>

InnerOrigins == {Vec(F(5000), F(0), F(0))}
InnerContexts ==
    {SetRayDirection(NewRayContext(o, s, DefaultTheme, "day", "night", "clouds"), d) :
        o \in InnerOrigins, s \in SunDirs, d \in UnitDirs}

\* The sample loop's body after SetRayDirection, on the context of the state
\* or on one of a camera below the surface.
CallShadeSample ==
    /\ probe = NoProbe
    /\ \E c \in {ctx} \cup InnerContexts :
         probe' = [op |-> "sample", c |-> c, calls |-> ShadeCalls(c),
                   ret |-> ShadeSample(c)]
    /\ UNCHANGED <<ctx, trace, frame>>

NextShade == CallSpecular \/ CallOverlay \/ CallSunDisk \/ CallShadeSample

SpecShade == InitShade /\ [][NextShade]_vars

\* C7: ApplySpecularHighlight returns its input colour unchanged whenever the
\* day-texture sample is not an ocean pixel by IsOcean(., 1.1), whatever the
\* ray, the normal and the sun.
C7_NoHighlightOffOcean ==
    (probe.op = "specular" /\ ~IsOcean(probe.Cday, Q(11, 10))) => probe.ret = probe.Crgb

C7_Witness ==
    /\ probe.op = "specular"
    /\ ~IsOcean(probe.Cday, Q(11, 10))
    /\ SpecularHighlight(ctx).R = F(1)
    /\ probe.ret = probe.Crgb

\* C8: ApplyAtmosphereOverlay returns the base colour unmodified whenever the
\* context's HitsAtmosphere is false, whatever the shadow intersection, the
\* earth hit and the theme.
C8_NoOverlayOffAtmosphere ==
    (probe.op = "overlay" /\ ~ctx.HitsAtmosphere) => probe.ret = probe.base

C8_Witness ==
    /\ probe.op = "overlay"
    /\ ~ctx.HitsAtmosphere
    /\ ctx.HitsEarthShadow
    /\ probe.ret = probe.base

-----------------------------------------------------------------------------
(* A frame rendered by RenderScene and by concurrent workers *)

\* Largest worker count, largest image size and largest number of samples
\* per image row of the frames explored.
MaxWorkers == 3
MaxSize == 3
MaxRowSamples == 4

\* The cameras of the frames: 10700 km from the earth's centre on the X axis,
\* looking at the centre, the tangent of the half field of view 3/4.
Cameras ==
    {[Position |-> Vec(F(10700), F(0), F(0)), Forward |-> Vec(F(-1), F(0), F(0)),
      Right |-> Vec(F(0), F(1), F(0)), Up |-> Vec(F(0), F(0), F(1)),
      TanHalfFOV |-> Q(3, 4)]}

\* The sun behind the earth's lower limb as the camera sees it, and the sun
\* behind the camera.
FrameSuns == {Vec(Q(-21, 29), F(0), Q(-20, 29)), Vec(F(1), F(0), F(0))}

\* The arguments of RenderScene: camera, sunDir, outSize, supersampling,
\* theme, numWorkers; and the state of the theme's texture files: the files
\* that cannot be opened or decoded, the texels whose bytes cannot be read.
Scenes ==
    {[camera |-> c, sunDir |-> s, outSize |-> W, supersampling |-> n,
      theme |-> DefaultTheme, numWorkers |-> k, unopenable |-> {}, unreadable |-> {}] :
        c \in Cameras, s \in FrameSuns, k \in 1..MaxWorkers,
        <<W, n>> \in {f \in (2..MaxSize) \X (0..2) : f[1] * f[2] <= MaxRowSamples}}

\* The rows of worker w of k, in the order it renders them.
RECURSIVE RowsFrom(_, _, _, _)
RowsFrom(y, w, k, Hgt) ==
    IF y >= Hgt THEN <<>>
    ELSE IF y % k = w - 1 THEN <<y>> \o RowsFrom(y + 1, w, k, Hgt)
    ELSE RowsFrom(y + 1, w, k, Hgt)
RowsOf(w, k, Hgt) == RowsFrom(0, w, k, Hgt)

\* The RayContext instance worker w uses: its own.
ContextOf(w) == w

\* A pixel loop about to start on the rows given.
StartLoop(rows) ==
    [pc |-> IF rows = <<>> THEN "done" ELSE "ray", rows |-> rows, x |-> 0, i |-> 1,
     colorAccum |-> NoColor]

InitRender ==
    /\ ctx = NoContext
    /\ trace = <<>>
    /\ probe = NoProbe
    /\ scene \in Scenes
    /\ seq = [loop |-> StartLoop([y \in 1..scene.outSize |-> y - 1]),
              ctx |-> RenderContext(scene.camera, scene.sunDir, scene.theme),
              img |-> NewNRGBA(scene.outSize, scene.outSize), written |-> <<>>]
    /\ contexts = [id \in 1..scene.numWorkers |->
                      [ctx |-> RenderContext(scene.camera, scene.sunDir, scene.theme),
                       users |-> {}]]
    /\ workers = [w \in 1..scene.numWorkers |->
                      [loop |-> StartLoop(RowsOf(w, scene.numWorkers, scene.outSize)),
                       context |-> ContextOf(w)]]
    /\ img = [p \in (0..(scene.outSize - 1)) \X (0..(scene.outSize - 1)) |->
                 [rgba |-> <<0, 0, 0, 0>>, writers |-> <<>>]]
    /\ tiff = NoTiff

offsets == GenerateSupersamplingOffsets(scene.supersampling)

\* The first statements of the sample loop's body, run by a loop on context c;
\* with no offsets the loop has no body.
LoopSetRay(l, c) ==
    IF offsets = <<>> THEN c
    ELSE TraceSample(c, scene.camera, l.x, Head(l.rows), offsets[l.i],
                     scene.outSize, scene.outSize)

\* The accumulator after the rest of the sample loop's body.
LoopAccum(l, c) ==
    IF offsets = <<>> THEN l.colorAccum ELSE CAdd(l.colorAccum, ShadeSample(c))

\* The loop leaving each pixel one sample early.
LoopAdvanceShort(l, accum) ==
    IF l.i + 1 < Len(offsets) THEN [l EXCEPT !.pc = "ray", !.i = l.i + 1, !.colorAccum = accum]
    ELSE IF l.x + 1 < scene.outSize
         THEN [l EXCEPT !.pc = "ray", !.i = 1, !.x = l.x + 1, !.colorAccum = NoColor]
    ELSE [l EXCEPT !.pc = IF Len(l.rows) = 1 THEN "done" ELSE "ray",
                   !.rows = Tail(l.rows), !.i = 1, !.x = 0, !.colorAccum = NoColor]

\* The loop after a sample: the next sample of the pixel, or the next pixel
\* of the row, or the next row.
LoopAdvance(l, accum) ==
    IF l.i < Len(offsets) THEN [l EXCEPT !.pc = "ray", !.i = l.i + 1, !.colorAccum = accum]
    ELSE IF l.x + 1 < scene.outSize
         THEN [l EXCEPT !.pc = "ray", !.i = 1, !.x = l.x + 1, !.colorAccum = NoColor]
    ELSE [l EXCEPT !.pc = IF Len(l.rows) = 1 THEN "done" ELSE "ray",
                   !.rows = Tail(l.rows), !.i = 1, !.x = 0, !.colorAccum = NoColor]

\* RaytraceScenePixels: rayDir := camera.ComputeRay(...); ctx.SetRayDirection(rayDir)
SeqSetRay ==
    /\ scene # NoScene
    /\ seq.loop.pc = "ray"
    /\ seq' = [seq EXCEPT !.ctx = LoopSetRay(seq.loop, seq.ctx), !.loop.pc = "shade"]
    /\ UNCHANGED <<ctx, trace, probe, scene, contexts, workers, img, tiff>>

\* image.Image.At of a decoded file (stripedTiff.At, tiledTiff.loadTile)
\* panics when the bytes of the texel cannot be read.
AtPanics(t, at) == <<t, at[1], at[2]>> \in scene.unreadable

\* The sample loop's body panics when RenderEarthSurface samples a texel on
\* which At panics.
ShadePanics(c) ==
    /\ offsets # <<>>
    /\ FGt(c.TEarth, F(0))
    /\ \E t \in {c.TexDay, c.TexNight, c.TexClouds} :
          AtPanics(t, TexelAt(TextureFiles[t].Width, TextureFiles[t].Height,
                              getXY(t, c.HitPoint)))

\* RaytraceScenePixels: the sample is shaded and accumulated; after the last
\* sample of the pixel the pixel is written.
SeqShade ==
    /\ scene # NoScene
    /\ seq.loop.pc = "shade"
    /\ ~ShadePanics(seq.ctx)
    /\ \E accum \in {LoopAccum(seq.loop, seq.ctx)} :
         seq' = [seq EXCEPT
                   !.loop = LoopAdvance(seq.loop, accum),
                   !.img = IF seq.loop.i < Len(offsets) THEN @
                           ELSE [@ EXCEPT ![<<seq.loop.x, Head(seq.loop.rows)>>] =
                                   PixelOut(accum, Len(offsets), seq.ctx.theme)],
                   !.written = IF seq.loop.i < Len(offsets) THEN @
                               ELSE Append(@, [x |-> seq.loop.x, y |-> Head(seq.loop.rows),
                                               samples |-> IF offsets = <<>> THEN 0
                                                           ELSE seq.loop.i])]
    /\ UNCHANGED <<ctx, trace, probe, scene, contexts, workers, img, tiff>>

\* Worker w sets the ray of its next sample on its context.
WorkerSetRay(w) ==
    /\ seq.loop.pc = "done"
    /\ workers[w].loop.pc = "ray"
    /\ LET id == workers[w].context
       IN  contexts' = [contexts EXCEPT
                          ![id].ctx = LoopSetRay(workers[w].loop, @),
                          ![id].users = @ \cup {w}]
    /\ workers' = [workers EXCEPT ![w].loop.pc = "shade"]
    /\ UNCHANGED <<ctx, trace, probe, scene, seq, img, tiff>>

\* Worker w shades the sample its context holds; after the last sample of the
\* pixel it writes the pixel.
WorkerShade(w) ==
    /\ seq.loop.pc = "done"
    /\ workers[w].loop.pc = "shade"
    /\ \E l \in {workers[w].loop}, id \in {workers[w].context} :
       \E accum \in {LoopAccum(l, contexts[id].ctx)} :
         /\ workers' = [workers EXCEPT ![w].loop = LoopAdvance(l, accum)]
         /\ contexts' = [contexts EXCEPT ![id].users = @ \cup {w}]
         /\ img' = IF l.i < Len(offsets) THEN img
                   ELSE [img EXCEPT ![<<l.x, Head(l.rows)>>] =
                           [rgba |-> PixelOut(accum, Len(offsets), contexts[id].ctx.theme),
                            writers |-> Append(@.writers, w)]]
    /\ UNCHANGED <<ctx, trace, probe, scene, seq, tiff>>

NextRender ==
    \/ SeqSetRay
    \/ SeqShade
    \/ \E w \in DOMAIN workers : WorkerSetRay(w)
    \/ \E w \in DOMAIN workers : WorkerShade(w)

SpecRender == InitRender /\ [][NextRender]_vars

AllDone == scene # NoScene /\ \A w \in DOMAIN workers : workers[w].loop.pc = "done"

C11_RendersAgree ==
    AllDone => [p \in DOMAIN img |-> img[p].rgba] = seq.img

\* C11 witness: both renders of a frame of three rows are complete, the second
\* one by two workers, and the frame shows more than one colour.
C11_Witness ==
    /\ AllDone
    /\ scene.numWorkers = 2
    /\ scene.outSize = 3
    /\ Cardinality({seq.img[p] : p \in DOMAIN seq.img}) >= 2
    /\ [p \in DOMAIN img |-> img[p].rgba] = seq.img

-----------------------------------------------------------------------------
(* NewCamera and ComputeRay *)

\* The arguments of NewCamera explored (degrees and km), and the largest
\* image size ComputeRay is called with.
Latitudes == {F(0), F(45), F(90), F(-90)}
Longitudes == {F(0), F(90), F(180)}
Altitudes == {F(8800)}
FOVs == {F(60), F(90)}
Tilts == {F(0), F(90), F(-30)}
Yaws == {F(0), F(90), F(-90), F(180)}
MaxWidth == 4

InitCamera ==
    /\ ctx = NoContext
    /\ trace = <<>>
    /\ probe = NoProbe
    /\ NoFrame

CallNewCamera ==
    /\ probe = NoProbe
    /\ \E latDeg \in Latitudes, lonDeg \in Longitudes, altKm \in Altitudes,
          fovDeg \in FOVs, tiltDeg \in Tilts, yawDeg \in Yaws :
         probe' = [op |-> "NewCamera", latDeg |-> latDeg, lonDeg |-> lonDeg,
                   altKm |-> altKm, tiltDeg |-> tiltDeg, yawDeg |-> yawDeg,
                   ret |-> NewCamera(latDeg, lonDeg, altKm, fovDeg, tiltDeg, yawDeg)]
    /\ UNCHANGED <<ctx, trace, frame>>

\* RaytraceScenePixels: camera.ComputeRay(float64(x)+dx, (float64(y)+dy)*ar, W, H)
\* for pixel (x, y) and the k-th of the n * n offsets.
CallComputeRay ==
    /\ probe = NoProbe
    /\ \E W \in 2..MaxWidth, n \in 1..MaxSupersampling, camera \in Cameras :
       \E x \in 0..(W - 1), y \in 0..(W - 1), k \in 1..(n * n) :
       \E off \in {GenerateSupersamplingOffsets(n)[k]} :
         probe' = [op |-> "ComputeRay", x |-> x, y |-> y, off |-> off,
                   i |-> FAdd(F(x), off[1]), j |-> FMul(FAdd(F(y), off[2]), ar),
                   width |-> W, height |-> W, camera |-> camera,
                   ret |-> ComputeRay(camera, FAdd(F(x), off[1]),
                                      FMul(FAdd(F(y), off[2]), ar), W, W)]
    /\ UNCHANGED <<ctx, trace, frame>>

\* The sizes of the textures sampled, the points they are sampled at (the
\* zero vector of a missed ray, the poles, both sides of the two meridians of
\* the XZ plane, a point with NaN components) and the values a build may
\* give int(NaN).
TextureSizes == {<<4, 2>>, <<5, 3>>, <<8, 4>>}
SamplePoints ==
    {Zero, NaNDir, Vec(F(0), F(0), F(1)), Vec(F(0), F(0), F(-1)),
     Vec(F(6371), F(0), F(0)), Vec(F(0), F(1), F(0)), Vec(F(0), F(-1), F(0)),
     Vec(F(1), F(1), F(1)), Vec(F(-1), F(-1), F(-1))}
    \cup {Vec(F(x), Q(y, 100), F(z)) : x \in {-1, 1}, y \in {-2, -1, 0, 1, 2}, z \in {0, 1}}
NonFiniteInts == {-1000000, 0, 1000000}

\* Texture.Sample(P): the coordinates getXY returns, the texel read.
CallSample ==
    /\ probe = NoProbe
    /\ \E size \in TextureSizes, P \in SamplePoints, nonFinite \in NonFiniteInts :
       \E xy \in {getXYIn(size[1], size[2], P, nonFinite)} :
         probe' = [op |-> "Sample", Width |-> size[1], Height |-> size[2], P |-> P,
                   nonFinite |-> nonFinite, xy |-> xy,
                   at |-> TexelAt(size[1], size[2], xy)]
    /\ UNCHANGED <<ctx, trace, frame>>

NextCamera == CallNewCamera \/ CallComputeRay \/ CallSample

SpecCamera == InitCamera /\ [][NextCamera]_vars

\* Two vectors that differ by less than 1/10 in every component.
Near(u, v) ==
    /\ FLt(FAbs(FSub(u.X, v.X)), Q(1, 10))
    /\ FLt(FAbs(FSub(u.Y, v.Y)), Q(1, 10))
    /\ FLt(FAbs(FSub(u.Z, v.Z)), Q(1, 10))

\* The basis b after a yaw about its up axis and then a tilt about its right
\* axis, each applied when its angle is not zero.
YawThenTilt(b, tiltDeg, yawDeg) ==
    Do([yw \in {IF yawDeg # F(0) THEN yawCamera(b[1], b[2], b[3], yawDeg) ELSE b} |->
        IF tiltDeg # F(0) THEN tiltCamera(yw[1], yw[2], yw[3], tiltDeg) ELSE yw])

\* C13: the basis NewCamera returns is its pole-safe basis, yawed (forward and
\* right rotated about up) and then tilted (forward and up rotated about
\* right); so with tilt = 0 the yaw turns forward about up and leaves up as
\* it was.
C13_YawThenTilt ==
    probe.op = "NewCamera" =>
        \E b \in {YawThenTilt(CameraBasis(probe.ret.Position), probe.tiltDeg, probe.yawDeg)} :
            /\ Near(probe.ret.Forward, b[1])
            /\ Near(probe.ret.Right, b[2])
            /\ Near(probe.ret.Up, b[3])

\* C14: for every pixel and supersampling offset of the render loop, the
\* normalized device coordinates ComputeRay derives lie in [-1, 1] on both
\* axes, y has the sign opposite to the row's side of the image centre, and a
\* non-zero offset moves the coordinate (nothing is rounded to the pixel).
C14_NDCInUnitSquare ==
    probe.op = "ComputeRay" =>
        \E xNDC \in {NDC(probe.i, F(probe.width))},
           yNDC \in {Neg(NDC(probe.j, F(probe.height)))} :
            /\ FLe(F(-1), xNDC) /\ FLe(xNDC, F(1))
            /\ FLe(F(-1), yNDC) /\ FLe(yNDC, F(1))
            /\ FLt(probe.j, Q(probe.height - 1, 2)) => FGt(yNDC, F(0))
            /\ FGt(probe.j, Q(probe.height - 1, 2)) => FLt(yNDC, F(0))
            /\ probe.off[1] # F(0) => xNDC # NDC(F(probe.x), F(probe.width))
            /\ probe.off[2] # F(0) => yNDC # Neg(NDC(F(probe.y), F(probe.height)))

-----------------------------------------------------------------------------
(* The fields SetRayDirection stores *)

\* The last direction set on the context.
LastDir == trace[Len(trace)]

\* C18: after a SetRayDirection that hits the earth, neither atmosphere bound
\* and neither shadow bound exceeds TEarth; after one that misses the earth
\* the four bounds are the results of the two intersections as returned.
C18_BoundsClampedToEarth ==
    Len(trace) >= 1 =>
        \E atmo \in {intersectSphereForward(ctx.Origin, LastDir, F(RadiusWithAtmosphere))},
           shadow \in {intersectHalfCylinderForward(ctx.Origin, LastDir,
                                                    Scale(ctx.SunDir, F(-1)), F(Radius))} :
            /\ ctx.HitEarth =>
                 /\ FLe(ctx.AtmosphereEntryT, ctx.TEarth)
                 /\ FLe(ctx.AtmosphereExitT, ctx.TEarth)
                 /\ FLe(ctx.EarthShadowEntryT, ctx.TEarth)
                 /\ FLe(ctx.EarthShadowExitT, ctx.TEarth)
            /\ ~ctx.HitEarth =>
                 /\ ctx.AtmosphereEntryT = atmo.t0
                 /\ ctx.AtmosphereExitT = atmo.t1
                 /\ ctx.EarthShadowEntryT = shadow.t0
                 /\ ctx.EarthShadowExitT = shadow.t1

\* C19: after SetRayDirection(dir), on a hit HitPoint = Origin + TEarth*dir,
\* SurfaceNormal = normalize(HitPoint) and ViewDotNormal = -(SurfaceNormal . dir);
\* on a miss HitPoint and SurfaceNormal are the zero vector and ViewDotNormal
\* is 0, whatever the ray before left in the context.
C19_HitFields ==
    Len(trace) >= 1 =>
        IF ctx.HitEarth
        THEN /\ ctx.HitPoint = VAdd(ctx.Origin, Scale(LastDir, ctx.TEarth))
             /\ ctx.SurfaceNormal = Normalize(ctx.HitPoint)
             /\ ctx.ViewDotNormal = Neg(Dot(ctx.SurfaceNormal, LastDir))
        ELSE /\ ctx.HitPoint = Zero
             /\ ctx.SurfaceNormal = Zero
             /\ ctx.ViewDotNormal = F(0)

\* C19 witness: a ray that misses the earth set after one that hit it at a
\* point off the origin, and the hit fields are zero again.
C19_Witness ==
    /\ Len(trace) = 2
    /\ Fresh(ctx, trace[1]).HitEarth
    /\ Fresh(ctx, trace[1]).HitPoint # Zero
    /\ ~ctx.HitEarth
    /\ ctx.HitPoint = Zero
    /\ ctx.ViewDotNormal = F(0)

\* C20: when intersectHalfCylinderForward reports a hit, the points of the
\* ray at the two distances returned both lie on the side of the axis origin
\* the axis points to (away from the sun).
C20_SegmentOnShadowSide ==
    (probe.op = "cylinder" /\ probe.ret.hit) =>
        /\ FGe(Dot(VAdd(probe.origin, Scale(probe.dir, probe.ret.t0)), probe.axis), F(0))
        /\ FGe(Dot(VAdd(probe.origin, Scale(probe.dir, probe.ret.t1)), probe.axis), F(0))

-----------------------------------------------------------------------------
(* Texture.Sample *)

\* The point P mirrored in the XZ plane, which holds the 0 and the 180 degree
\* meridians.
Mirror(P) == Vec(P.X, Neg(P.Y), P.Z)

\* A finite point within 1/50 radian of the 180 degree meridian, off it.
NearDateLine(P) ==
    /\ IsFin(P.X) /\ IsFin(P.Y)
    /\ P.X.n < 0
    /\ P.Y.n # 0
    /\ FLe(FAbs(P.Y), FMul(Q(1, 50), FAbs(P.X)))

\* C15: Texture.Sample reads a texel with 0 <= x < Width and 0 <= y < Height
\* for every point, the zero vector, the poles and NaN included, and a point
\* next to the 180 degree meridian reads the column of its mirror image on the
\* other side, or a column next to it modulo Width.
C15_SampleInBounds ==
    probe.op = "Sample" =>
        /\ probe.at[1] \in 0..(probe.Width - 1)
        /\ probe.at[2] \in 0..(probe.Height - 1)
        /\ NearDateLine(probe.P) =>
             \E o \in {getXYIn(probe.Width, probe.Height, Mirror(probe.P), probe.nonFinite)} :
                 (probe.xy[1] - o[1]) % probe.Width \in {0, 1, probe.Width - 1}

\* C15 witness: a point just east of the 180 degree meridian read from the
\* last column of a texture eight texels wide.
C15_Witness ==
    /\ probe.op = "Sample"
    /\ probe.Width = 8
    /\ NearDateLine(probe.P)
    /\ probe.P.Y.n < 0
    /\ probe.at = <<7, 1>>
    /\ probe.at = probe.xy

-----------------------------------------------------------------------------
(* The shading pipeline of one sample *)

\* C16: the sample loop calls RenderEarthSurface exactly when the context's
\* HitEarth is true, and then ApplyAtmosphereOverlay and RenderSunDisk, in
\* that order, on a hit and on a miss.
C16_SurfaceIffHitEarth ==
    probe.op = "sample" =>
        probe.calls = (IF probe.c.HitEarth THEN <<"RenderEarthSurface">> ELSE <<>>)
                          \o <<"ApplyAtmosphereOverlay", "RenderSunDisk">>

-----------------------------------------------------------------------------
(* The sample count of a pixel *)

\* C17: RaytraceScenePixels never scales an accumulated colour by 1/0: when
\* the pixel loop is about to average and write a pixel, the number of
\* offsets is not zero and the scale factor 1.0 / N is finite.
C17_NoZeroSampleCount ==
    (scene # NoScene /\ seq.loop.pc = "shade" /\ seq.loop.i >= Len(offsets)) =>
        /\ Len(offsets) > 0
        /\ IsFin(FDiv(F(1), F(Len(offsets))))

-----------------------------------------------------------------------------
(* RenderScene and the texture files *)

\* The textures in the order RenderScene loads them.
TextureNames == <<"day", "night", "clouds">>

\* The texels that cannot be read: none, the texel under the centre of the
\* frame in the day or in the night file, a texel of the clouds file the frame
\* does not show.
UnreadableTexels == {{}, {<<"day", 2, 0>>}, {<<"night", 2, 0>>}, {<<"clouds", 0, 1>>}}

LoadScenes ==
    {[camera |-> c, sunDir |-> s, outSize |-> MaxSize, supersampling |-> 1,
      theme |-> DefaultTheme, numWorkers |-> 1, unopenable |-> U, unreadable |-> B] :
        c \in Cameras, s \in FrameSuns, U \in SUBSET {"day", "night", "clouds"},
        B \in UnreadableTexels}

\* RenderScene has not returned.
NoReturn == [returned |-> FALSE, img |-> <<>>, err |-> "nil"]

InitLoad ==
    /\ ctx = NoContext
    /\ trace = <<>>
    /\ probe = NoProbe
    /\ scene \in LoadScenes
    /\ seq = [loop |-> [pc |-> "load"], loaded |-> <<>>, ctx |-> NoContext, img |-> <<>>,
              written |-> <<>>, ret |-> NoReturn]
    /\ contexts = <<>>
    /\ workers = <<>>
    /\ img = <<>>
    /\ tiff = NoTiff

\* RenderScene: the next loadTexture call and the return of its error.
SeqLoadTexture ==
    /\ seq.loop.pc = "load"
    /\ Len(seq.loaded) < Len(TextureNames)
    /\ \E t \in {TextureNames[Len(seq.loaded) + 1]} :
         seq' = IF t \in scene.unopenable
                THEN [seq EXCEPT !.loop.pc = "returned",
                                 !.ret = [returned |-> TRUE, img |-> <<>>, err |-> t]]
                ELSE [seq EXCEPT !.loaded = Append(@, t)]
    /\ UNCHANGED <<ctx, trace, probe, scene, contexts, workers, img, tiff>>

\* RenderScene: NewRayContext and the first statements of RaytraceScenePixels.
SeqStartTrace ==
    /\ seq.loop.pc = "load"
    /\ Len(seq.loaded) = Len(TextureNames)
    /\ seq' = [seq EXCEPT
                 !.loop = StartLoop([y \in 1..scene.outSize |-> y - 1]),
                 !.ctx = RenderContext(scene.camera, scene.sunDir, scene.theme),
                 !.img = NewNRGBA(scene.outSize, scene.outSize)]
    /\ UNCHANGED <<ctx, trace, probe, scene, contexts, workers, img, tiff>>

\* RaytraceScenePixels: At panics under RenderEarthSurface; nothing recovers
\* the panic, so RenderScene does not return.
SeqPanic ==
    /\ seq.loop.pc = "shade"
    /\ ShadePanics(seq.ctx)
    /\ seq' = [seq EXCEPT !.loop.pc = "panicked"]
    /\ UNCHANGED <<ctx, trace, probe, scene, contexts, workers, img, tiff>>

\* RenderScene: return img, nil
SeqReturn ==
    /\ seq.loop.pc = "done"
    /\ seq' = [seq EXCEPT !.loop.pc = "returned",
                          !.ret = [returned |-> TRUE, img |-> seq.img, err |-> "nil"]]
    /\ UNCHANGED <<ctx, trace, probe, scene, contexts, workers, img, tiff>>

NextLoad ==
    \/ SeqLoadTexture
    \/ SeqStartTrace
    \/ SeqSetRay
    \/ SeqShade
    \/ SeqPanic
    \/ SeqReturn

SpecLoad == InitLoad /\ [][NextLoad]_vars

\* The texture capability has failed to produce a value: a file could not be
\* loaded, or a texel could not be read when it was sampled.
TextureFailed == seq.loaded # TextureNames \/ seq.loop.pc = "panicked"

\* C12: when RenderScene has ended, then after a texture failure, at load
\* time or at a sample, it has returned a nil image with a non-nil error, and
\* otherwise it has returned the image of the whole frame with a nil error.
C12_FailureIsReturned ==
    seq.loop.pc \in {"returned", "panicked"} =>
        IF TextureFailed
        THEN seq.ret.returned /\ seq.ret.img = <<>> /\ seq.ret.err # "nil"
        ELSE /\ seq.ret.returned /\ seq.ret.err = "nil"
             /\ seq.ret.img = seq.img
             /\ DOMAIN seq.ret.img = (0..(scene.outSize - 1)) \X (0..(scene.outSize - 1))

-----------------------------------------------------------------------------
(* The specular highlight and the sun *)

\* C21: ApplySpecularHighlight returns its input colour unchanged for every
\* ray whose hit point does not face the sun (SurfaceNormal . SunDir <= 0),
\* even when the day sample is an ocean pixel.
C21_NoHighlightOffSun ==
    (probe.op = "specular" /\ ctx.HitEarth /\ FLe(Dot(ctx.SurfaceNormal, ctx.SunDir), F(0)))
        => probe.ret = probe.Crgb

\* The overlap of the atmosphere segment [AtmosphereEntryT, AtmosphereExitT]
\* of a context with its shadow-cylinder segment, and the segment's length.
ShadowOverlap(c) ==
    Do([shadow \in {intersectHalfCylinderForward(c.Origin, c.RayDir,
                                                 Scale(c.SunDir, F(-1)), F(Radius))} |->
    Do([from \in {MathMax(c.AtmosphereEntryT, shadow.t0)},
        to \in {MathMin(c.AtmosphereExitT, shadow.t1)} |->
        IF shadow.hit /\ FGt(to, from) THEN FSub(to, from) ELSE F(0)])])
SegmentLength(c) == FSub(c.AtmosphereExitT, c.AtmosphereEntryT)

\* C22: for every ray that hits the atmosphere, ApplyAtmosphereOverlay's
\* unlit length is the overlap of the atmosphere segment with the shadow
\* segment and its lit length is the segment's length minus that overlap.
C22_UnlitIsOverlap ==
    (probe.op = "overlay" /\ ctx.HitsAtmosphere) =>
        /\ probe.split.unlitLen = ShadowOverlap(ctx)
        /\ probe.split.litLen = FSub(SegmentLength(ctx), ShadowOverlap(ctx))

\* A ray through pure air whose atmosphere segment is only partly in shadow.
PartlyShadowedAir(c) == ~c.HitEarth /\ FGt(SegmentLength(c), ShadowOverlap(c))

\* C22 as the code has it: the unlit length is the overlap and the lit length
\* is the rest of the segment, except for a ray that misses the earth and
\* whose overlap is shorter than the segment, where the overlap is ignored
\* (unlit 0, lit the whole segment); neither length is negative.
C22_UnlitIsOverlapButInAir ==
    (probe.op = "overlay" /\ ctx.HitsAtmosphere) =>
        \E unlit \in {IF PartlyShadowedAir(ctx) THEN F(0) ELSE ShadowOverlap(ctx)} :
            /\ probe.split.unlitLen = unlit
            /\ probe.split.litLen = FSub(SegmentLength(ctx), unlit)
            /\ ~FLt(probe.split.unlitLen, F(0))
            /\ ~FLt(probe.split.litLen, F(0))

\* C22 witness: a ray through pure air with part of its atmosphere segment
\* in the shadow, and the overlay has counted none of it as unlit.
C22_Witness ==
    /\ probe.op = "overlay"
    /\ ctx.HitsAtmosphere
    /\ PartlyShadowedAir(ctx)
    /\ FGt(ShadowOverlap(ctx), F(0))
    /\ probe.split.unlitLen = F(0)
    /\ probe.split.litLen = SegmentLength(ctx)

\* The ray of a context lies within the glow angular radius of the sun.
WithinGlowRadius(c) ==
    /\ FGt(Dot(c.RayDir, c.SunDir), F(0))
    /\ FLe(Acos(Dot(c.RayDir, c.SunDir)), glowAngularRadius)

\* C23: with a non-zero sun-visible fraction, RenderSunDisk returns for a ray
\* that hits the earth the base colour plus the forward-scatter glow (a
\* multiple of the warm orange) and nothing else; a result other than base
\* plus glow occurs only for a ray that misses the earth and lies within the
\* glow angular radius of the sun direction.
C23_GlowBeforeOcclusion ==
    (probe.op = "sun" /\ ~FEq(ctx.GlobalSunFraction, F(0))) =>
        /\ ctx.HitEarth => probe.ret = SunGlow(ctx, probe.base)
        /\ ctx.HitEarth =>
             \E g \in {FSub(probe.ret.R, probe.base.R)} :
                 /\ FGe(g, F(0))
                 /\ probe.ret = CAdd(probe.base,
                                     CScale(Color(F(1), Q(7, 10), Q(2, 5), F(1)), g))
        /\ probe.ret # SunGlow(ctx, probe.base) =>
             ~ctx.HitEarth /\ WithinGlowRadius(ctx)

\* C23 witness: a ray that hits the earth near a visible sun has come back
\* with a glow on its base colour.
C23_Witness ==
    /\ probe.op = "sun"
    /\ ~FEq(ctx.GlobalSunFraction, F(0))
    /\ ctx.HitEarth
    /\ FGt(probe.ret.R, probe.base.R)

\* C24: for a sun-visible fraction f with 0 < f < 1, what RenderSunDisk adds
\* to the base colour is f times what it adds when the sun is fully visible.
C24_ContributionScalesWithFraction ==
    (probe.op = "sun" /\ FGt(ctx.GlobalSunFraction, F(0))
                      /\ FLt(ctx.GlobalSunFraction, F(1))) =>
        \E full \in {RenderSunDisk([ctx EXCEPT !.GlobalSunFraction = F(1)], probe.base)} :
            probe.ret = CAdd(probe.base,
                             CScale(CAdd(full, CScale(probe.base, F(-1))),
                                    ctx.GlobalSunFraction))

(* The pixel's colour *)
\* The sum of the colours of the first k samples of pixel (x, y), each as the
\* shading functions return it.
RECURSIVE SumSamples(_, _, _, _)
SumSamples(c, x, y, k) ==
    IF k = 0 THEN NoColor
    ELSE CAdd(SumSamples(c, x, y, k - 1),
              ShadeSample(TraceSample(c, scene.camera, x, y, offsets[k],
                                      scene.outSize, scene.outSize)))

\* The pixel the sequential loop has written last.
LastWritten ==
    IF seq.loop.pc = "done" THEN <<scene.outSize - 1, scene.outSize - 1>>
    ELSE IF seq.loop.x > 0 THEN <<seq.loop.x - 1, Head(seq.loop.rows)>>
    ELSE <<scene.outSize - 1, Head(seq.loop.rows) - 1>>

\* The sequential loop is between two pixels, one of them written.
PixelWritten ==
    /\ scene # NoScene
    /\ seq.loop.pc \in {"ray", "done"}
    /\ seq.loop.pc = "ray" => seq.loop.i = 1 /\ (seq.loop.x > 0 \/ Head(seq.loop.rows) > 0)

\* C25: every pixel RaytraceScenePixels writes is the sum of its samples'
\* colours divided by the sample count, then multiplied by the theme's warm
\* tint, then boosted in saturation, then composited over black, then
\* converted to 8 bits; and the accumulator holds the plain sum of the
\* samples shaded so far.
C25_PostProcessingOrder ==
    /\ PixelWritten =>
         \E p \in {LastWritten} :
         \E sum \in {SumSamples(seq.ctx, p[1], p[2], Len(offsets))} :
         \E averaged \in {CScale(sum, FDiv(F(1), F(Len(offsets))))} :
         \E warmed \in {CMul(averaged, scene.theme.Warm)} :
         \E boosted \in {BoostSaturation(warmed, Q(3, 2))} :
         \E composited \in {CompositeOverBlack(boosted)} :
             seq.img[p] = ToNRGBA(composited)
    /\ (scene # NoScene /\ seq.loop.pc = "ray") =>
         seq.loop.colorAccum = SumSamples(seq.ctx, seq.loop.x, Head(seq.loop.rows),
                                          seq.loop.i - 1)

\* C25 witness: a pixel of four samples has been written, and not black.
C25_Witness ==
    /\ PixelWritten
    /\ Len(offsets) = 4
    /\ seq.img[LastWritten] # <<0, 0, 0, 255>>
    /\ seq.img[LastWritten][1] # seq.img[LastWritten][3]

(* Clouds *)
\* The alpha BlendClouds infers: brightness(cloud) * light * boost.
InferredAlpha(CCloud, light, boost) ==
    FMul(FMul(FDiv(FAdd(FAdd(CCloud.R, CCloud.G), CCloud.B), F(3)), light), boost)

\* One channel of 'over' blending: base * (1 - alpha) + cloud * alpha.
Over(base, cloud, alpha) == FAdd(FMul(base, FSub(F(1), alpha)), FMul(cloud, alpha))

\* C26: BlendClouds returns base * (1 - alpha) + cloud * alpha for R, G and B
\* with alpha = brightness(cloud) * light * boost, leaves the base alpha
\* unchanged, and returns the base colour when light = 0.
C26_CloudsOverBase ==
    probe.op = "clouds" =>
        \E alpha \in {InferredAlpha(probe.CCloud, probe.light, probe.boost)} :
            /\ probe.ret.R = Over(probe.C.R, probe.CCloud.R, alpha)
            /\ probe.ret.G = Over(probe.C.G, probe.CCloud.G, alpha)
            /\ probe.ret.B = Over(probe.C.B, probe.CCloud.B, alpha)
            /\ probe.ret.A = probe.C.A
            /\ probe.light = F(0) => probe.ret = probe.C

(* The 8-bit conversion *)
\* k is floor(255 * clamp01(x)) for a finite x.
IsFloor255(k, x) ==
    \E cn \in {IF x.n < 0 THEN 0 ELSE IF x.n > x.d THEN x.d ELSE x.n} :
        /\ k \in 0..255
        /\ k * x.d <= 255 * cn
        /\ 255 * cn < (k + 1) * x.d

\* The channels of a colour in the order of the bytes of ToNRGBA.
ChannelsOf(c) == <<c.R, c.G, c.B, c.A>>

\* C27: for every finite channel x the byte is floor(255 * clamp01(x)): it is
\* 255 only for x >= 1, it is 0 for every x < 1/255, and of two channels the
\* larger never gets the smaller byte.
C27_TruncatesNeverRounds ==
    probe.op = "ToNRGBA" =>
        \A i \in 1..4 :
        \E x \in {ChannelsOf(probe.c)[i]} :
            x.d # 0 =>
                /\ IsFloor255(probe.ret[i], x)
                /\ probe.ret[i] = 255 => FGe(x, F(1))
                /\ FLt(x, Q(1, 255)) => probe.ret[i] = 0
                /\ \A j \in 1..4 :
                     (ChannelsOf(probe.c)[j].d # 0 /\ FLe(x, ChannelsOf(probe.c)[j]))
                         => probe.ret[i] <= probe.ret[j]

\* C27 witness: a channel of 509/510, for which 255 * x = 254.5, has become
\* the byte 254.
C27_Witness ==
    /\ probe.op = "ToNRGBA"
    /\ probe.c.R = Q(509, 510)
    /\ probe.ret[1] = 254

(* The scene's fields of the context *)
\* C28: from the first statements of RaytraceScenePixels on, whatever rays
\* have been set on it, the context holds the camera's position, the scene's
\* sun direction, theme and three textures, and the sun fraction
\* SunVisibleFraction gave for them before the first sample; no ray is set
\* before that.
C28_SceneFieldsFixed ==
    /\ seq.loop.pc = "load" => seq.ctx = NoContext
    /\ seq.ctx # NoContext =>
         /\ seq.ctx.Origin = scene.camera.Position
         /\ seq.ctx.SunDir = scene.sunDir
         /\ seq.ctx.GlobalSunFraction
                = SunVisibleFraction(scene.camera.Position, scene.sunDir)
         /\ seq.ctx.theme = scene.theme
         /\ seq.ctx.TexDay = scene.theme.Day
         /\ seq.ctx.TexNight = scene.theme.Night
         /\ seq.ctx.TexClouds = scene.theme.Clouds

\* C28 witness: the last of the frame's nine rays has been set and the sun
\* fraction of the frame is not the zero the context was made with.
C28_Witness ==
    /\ seq.loop.pc = "done"
    /\ seq.ctx # NoContext
    /\ seq.ctx.RayDir # Zero
    /\ seq.ctx.GlobalSunFraction = F(1)

-----------------------------------------------------------------------------
(* package tiff: the tiled reader and its tile cache *)

\* The capacity of the tile cache (lru.New(200) in LoadTiledTiff), here small
\* enough for the files below to overflow it.
CacheSize == 2

\* zlib's inflate, for tiles stored as runs <<count, byte>>.
RECURSIVE Inflate(_)
Inflate(runs) ==
    IF runs = <<>> THEN <<>>
    ELSE [k \in 1..runs[1][1] |-> runs[1][2]] \o Inflate(Tail(runs))

\* Two tiled files, each of four tiles with the right and bottom tiles
\* reaching past the image: an uncompressed RGB file of 3 x 3 pixels in tiles
\* of 2 x 2, and a deflated grayscale file of 3 x 2 pixels in tiles of 2 x 1.
TiledFiles ==
    {[header |-> [Width |-> 3, Height |-> 3, TileWidth |-> 2, TileHeight |-> 2,
                  SamplesPerPixel |-> 3, Photometric |-> 2, Compression |-> 1],
      stored |-> [i \in 1..4 |-> [k \in 1..12 |-> (40 * i + 3 * k) % 256]]],
     [header |-> [Width |-> 3, Height |-> 2, TileWidth |-> 2, TileHeight |-> 1,
                  SamplesPerPixel |-> 1, Photometric |-> 1, Compression |-> 8],
      stored |-> [i \in 1..4 |-> <<<<1, 10 * i>>, <<1, 10 * i + 5>>>>]]}

\* tiledTiff.loadTile(index): the bytes of the tile, inflated if the file is
\* deflated.
loadTile(t, index) ==
    IF t.header.Compression = 8 THEN Inflate(t.stored[index + 1])
    ELSE t.stored[index + 1]

\* lru.Cache, most recently used first.  Get(key) with the entry at the front
\* whatever its key.
cacheGetFront(cache, key) ==
    IF cache = <<>> THEN [ok |-> FALSE, val |-> <<>>, cache |-> cache]
    ELSE [ok |-> TRUE, val |-> cache[1].val, cache |-> cache]

\* lru.Cache.Get(key): the value under key, which becomes the most recently
\* used entry.
cacheGet(cache, key) ==
    IF \E i \in 1..Len(cache) : cache[i].key = key
    THEN Do([i \in {CHOOSE i \in 1..Len(cache) : cache[i].key = key} |->
             [ok |-> TRUE, val |-> cache[i].val,
              cache |-> <<cache[i]>> \o SelectSeq(cache, LAMBDA e : e.key # key)]])
    ELSE [ok |-> FALSE, val |-> <<>>, cache |-> cache]

\* lru.Cache.Add(key, val): the entry becomes the most recently used one, and
\* the least recently used entry goes when the cache is over its capacity.
cacheAdd(cache, key, val) ==
    Do([added \in {<<[key |-> key, val |-> val]>>
                       \o SelectSeq(cache, LAMBDA e : e.key # key)} |->
        IF Len(added) > CacheSize THEN SubSeq(added, 1, CacheSize) ELSE added])

\* tilesAcross := int(math.Ceil(float64(h.Width) / float64(h.TileWidth)))
tilesAcross(h) == (h.Width + h.TileWidth - 1) \div h.TileWidth

\* tiledTiff.At(x, y): the colour returned and the cache after the call.
At(t, x, y) ==
    Do([h \in {t.header} |->
    Do([tileIndex \in {(y \div h.TileHeight) * tilesAcross(h) + (x \div h.TileWidth)} |->
    Do([got \in {cacheGet(t.cache, tileIndex)} |->
    Do([tile \in {IF got.ok THEN got.val ELSE loadTile(t, tileIndex)},
        pixOffset \in {(y % h.TileHeight) * (h.TileWidth * h.SamplesPerPixel)
                           + (x % h.TileWidth) * h.SamplesPerPixel} |->
        [ret |-> IF h.Photometric = 2
                 THEN <<tile[pixOffset + 1], tile[pixOffset + 2], tile[pixOffset + 3], 255>>
                 ELSE <<tile[pixOffset + 1], tile[pixOffset + 1], tile[pixOffset + 1], 255>>,
         hit |-> got.ok,
         evicted |-> ~got.ok /\ Len(got.cache) = CacheSize,
         cache |-> IF got.ok THEN got.cache
                   ELSE cacheAdd(got.cache, tileIndex, tile)]])])])])

InitTiles ==
    /\ ctx = NoContext
    /\ trace = <<>>
    /\ probe = NoProbe
    /\ scene = NoScene
    /\ seq = [pc |-> "done"]
    /\ contexts = <<>>
    /\ workers = <<>>
    /\ img = <<>>
    /\ tiff \in {[header |-> f.header, stored |-> f.stored, cache |-> <<>>] : f \in TiledFiles}

\* A call of At on a pixel of the image.
CallAt ==
    \E x \in 0..(tiff.header.Width - 1), y \in 0..(tiff.header.Height - 1) :
    \E at \in {At(tiff, x, y)} :
        /\ probe' = [op |-> "At", x |-> x, y |-> y, ret |-> at.ret,
                     hit |-> at.hit, evicted |-> at.evicted]
        /\ tiff' = [tiff EXCEPT !.cache = at.cache]
        /\ UNCHANGED <<ctx, trace, scene, seq, contexts, workers, img>>

NextTiles == CallAt

SpecTiles == InitTiles /\ [][NextTiles]_vars

\* The pixel (x, y) decoded from its tile as the file holds it: the tiles
\* lie row by row, each row of tiles covering the image's width.
DirectColor(t, x, y) ==
    \* the tile's column and row, and the pixel's column and row within it
    LET col == x \div t.header.TileWidth
        row == y \div t.header.TileHeight
        perRow == CHOOSE n \in 1..t.header.Width :
                      /\ n * t.header.TileWidth >= t.header.Width
                      /\ (n - 1) * t.header.TileWidth < t.header.Width
        bytes == loadTile(t, row * perRow + col)
        at == ((y - row * t.header.TileHeight) * t.header.TileWidth
                  + (x - col * t.header.TileWidth)) * t.header.SamplesPerPixel
    IN  IF t.header.SamplesPerPixel = 3
        THEN <<bytes[at + 1], bytes[at + 2], bytes[at + 3], 255>>
        ELSE <<bytes[at + 1], bytes[at + 1], bytes[at + 1], 255>>

\* C29: whatever At calls came before, At(x, y) returns the colour of the
\* pixel decoded directly from its tile in the file, and every entry of the
\* cache holds under its tile index exactly the bytes loadTile returns for it.
C29_CacheTransparent ==
    /\ probe.op = "At" => probe.ret = DirectColor(tiff, probe.x, probe.y)
    /\ \A i \in 1..Len(tiff.cache) :
          tiff.cache[i].val = loadTile(tiff, tiff.cache[i].key)

\* C29 witness: a call has found its tile in a full cache that an earlier
\* call had to evict a tile from, and returned a pixel of that tile.
C29_Witness ==
    /\ probe.op = "At"
    /\ probe.hit
    /\ Len(tiff.cache) = CacheSize
    /\ probe.x \div tiff.header.TileWidth = 1
    /\ probe.y \div tiff.header.TileHeight = 1
    /\ tiff.cache[2].key = 0

-----------------------------------------------------------------------------
(* RaytraceScenePixels from its first statement to its return *)

\* Calls of RaytraceScenePixels with outSize >= 0 and supersampling >= 1.
TraceScenes ==
    {[camera |-> c, sunDir |-> s, outSize |-> W, supersampling |-> n,
      theme |-> DefaultTheme, numWorkers |-> 1, unopenable |-> {}, unreadable |-> {}] :
        c \in Cameras, s \in FrameSuns,
        <<W, n>> \in {f \in (0..MaxSize) \X (1..MaxSupersampling) :
                         f[1] * f[2] <= MaxRowSamples}}

InitTrace ==
    /\ ctx = NoContext
    /\ trace = <<>>
    /\ probe = NoProbe
    /\ scene \in TraceScenes
    /\ seq = [loop |-> StartLoop([y \in 1..scene.outSize |-> y - 1]),
              ctx |-> RenderContext(scene.camera, scene.sunDir, scene.theme),
              img |-> NewNRGBA(scene.outSize, scene.outSize), written |-> <<>>]
    /\ contexts = <<>>
    /\ workers = <<>>
    /\ img = <<>>
    /\ tiff = NoTiff

NextTrace == SeqSetRay \/ SeqShade

SpecTrace == InitTrace /\ [][NextTrace]_vars

\* RaytraceScenePixels is at its return.
AtReturn == seq.loop.pc = "done"

\* The loop's next statement can run: nothing blocks it and nothing panics.
NextStatementRuns ==
    \/ seq.loop.pc = "ray"
    \/ seq.loop.pc = "shade" /\ ~ShadePanics(seq.ctx)

\* C30: RaytraceScenePixels reaches its return (its next statement can always
\* run, and a run that goes on executing statements gets to the return), and
\* there it has written the outSize x outSize addresses row by row, each once
\* and after n * n samples, and nothing else.
C30_EveryPixelOnce ==
    /\ [](~AtReturn => NextStatementRuns)
    /\ ([]<><<TRUE>>_seq) => <>AtReturn
    /\ [](AtReturn =>
            /\ Len(seq.written) = scene.outSize * scene.outSize
            /\ \A k \in 1..Len(seq.written) :
                  /\ seq.written[k].x = (k - 1) % scene.outSize
                  /\ seq.written[k].y = (k - 1) \div scene.outSize
                  /\ seq.written[k].samples = scene.supersampling * scene.supersampling
            /\ DOMAIN seq.img = (0..(scene.outSize - 1)) \X (0..(scene.outSize - 1)))

\* C30 witness: a frame of 2 x 2 pixels with four samples each is at its
\* return with four pixels written.
C30_Witness ==
    /\ scene # NoScene
    /\ AtReturn
    /\ scene.outSize = 2
    /\ scene.supersampling = 2
    /\ Len(seq.written) = 4

=============================================================================
